---------------------------- MODULE Spec2Model ----------------------------
(***************************************************************************)
(* ClientMount reconciliation of the DWS repository.                       *)
(*                                                                         *)
(* Two reconcilers exist for the ClientMount resource:                     *)
(*   - the mount daemon (src/mount-daemon/controllers), which mounts and   *)
(*     unmounts file systems on the node, and                              *)
(*   - the DWS controller (src/controllers), which performs no node work   *)
(*     and only maintains the status and the finalizer.                    *)
(* One ClientMount resource is modelled, reconciled by the reconciler      *)
(* named by `owner`.  A pass of the daemon is modelled as the entry into   *)
(* Reconcile, one step per iteration of the mountAll/unmountAll loop, and  *)
(* the return from Reconcile; `pc` sequences them, and nothing else runs   *)
(* while a pass is in progress.                                            *)
(***************************************************************************)
EXTENDS Integers, Sequences, FiniteSets, TLC

\* Largest number of entries of spec.mounts.
MaxMounts == 2

\* time.Second * time.Duration(10)
RequeueDelay == 10

ClientMountStateMounted == "mounted"
ClientMountStateUnmounted == "unmounted"
ClientMountDeviceTypeLustre == "lustre"
ClientMountDeviceTypeLVM == "lvm"

---------------------------------------------------------------------------
(* The resources the model draws spec.mounts from. *)

MountPath(i) == "/mnt/" \o ToString(i)
VolumeGroup(i) == "vg" \o ToString(i)
LogicalVolume(i) == "lv" \o ToString(i)

LVMDevice(i) ==
    [type |-> ClientMountDeviceTypeLVM,
     lvm |-> [volumeGroup |-> VolumeGroup(i), logicalVolume |-> LogicalVolume(i)]]

\* An LVM device whose volume the node does not list.
LVMDeviceUnlisted(i) ==
    [type |-> ClientMountDeviceTypeLVM,
     lvm |-> [volumeGroup |-> VolumeGroup(i), logicalVolume |-> "nolv"]]

LustreDevice ==
    [type |-> ClientMountDeviceTypeLustre,
     lustre |-> [mgsAddresses |-> "mgs@tcp", fileSystemName |-> "fs"]]

\* A device whose tag is neither lustre nor lvm.
OtherDevice == [type |-> "other"]

ClientMountInfo(i, targetType, fsType, options, device) ==
    [mountPath |-> MountPath(i), targetType |-> targetType, type |-> fsType,
     options |-> options, device |-> device]

\* The kinds of entry.  In the cycle of Profiles every three neighbours hold
\* one entry with a listed logical volume.
Profiles == <<"xfs", "other", "lustre", "gfs2", "unlisted", "file">>

ProfileInfo(p, i) ==
    CASE p = "xfs"      -> ClientMountInfo(i, "directory", "xfs",
                                           IF i > 2 THEN "noatime" ELSE "", LVMDevice(i))
      [] p = "gfs2"     -> ClientMountInfo(i, "directory", "gfs2", "", LVMDevice(i))
      [] p = "lustre"   -> ClientMountInfo(i, "directory", "lustre", "ro", LustreDevice)
      [] p = "other"    -> ClientMountInfo(i, "directory", "xfs", "", OtherDevice)
      [] p = "file"     -> ClientMountInfo(i, "file", "lustre", "", LustreDevice)
      [] p = "unlisted" -> ClientMountInfo(i, "directory", "gfs2", "", LVMDeviceUnlisted(i))

\* Catalog k is the rotation of Profiles that starts at k.
Catalog(k) ==
    [i \in 1..MaxMounts |-> ProfileInfo(Profiles[((k + i - 2) % Len(Profiles)) + 1], i)]

Mounts(k, n) == SubSeq(Catalog(k), 1, n)

---------------------------------------------------------------------------
VARIABLES
    owner,        \* "daemon" | "controller": the reconciler of this resource
    Mock,         \* ClientMountReconciler.Mock of the daemon
    catalog,      \* which Catalog the resource's mounts are drawn from
    contention,   \* other clients write the resource while a pass runs
    exists,       \* the resource is stored in the API server
    deleting,     \* DeletionTimestamp is set
    finalizer,    \* finalizerClientMount is in the finalizer list
    spec,         \* [mounts, desiredState]
    status,       \* [mounts, error]; the reconciler's copy while a pass runs
    mountTable,   \* node: lines of the mount table, each a sequence of fields
    active,       \* node: volume groups whose logical volume is active
    pc,           \* "idle" | "mountAll" | "unmountAll"
    idx,          \* loop index of mountAll / unmountAll (1-based)
    firstError,   \* local of mountAll / unmountAll
    pass,         \* record of the pass in progress, or of the last one
    ops,          \* commands and OS calls executed by the latest mount/unmount call
    lastErr,      \* what the latest mount/unmount call returned
    queued,       \* a reconcile request is pending
    timer,        \* a RequeueAfter is pending
    probed        \* what a call of checkMount on its own returned

vars == <<owner, Mock, catalog, contention, exists, deleting, finalizer, spec, status,
          mountTable, active, pc, idx, firstError, pass, ops, lastErr,
          queued, timer, probed>>

---------------------------------------------------------------------------
(* The node: what the operating system does on a command, and what the    *)
(* listing commands print.  A command is the sequence of its words.       *)

Kind(cmd) ==
    CASE cmd = <<"mount">> -> "probe"
      [] cmd[1] = "mount" /\ Len(cmd) > 1 -> "mount"
      [] cmd[1] = "umount" -> "umount"
      [] cmd[1] = "lvs" -> "lvs"
      [] cmd[1] = "vgchange" /\ cmd[2] = "--lockstart" -> "lockstart"
      [] cmd[1] = "vgchange" /\ cmd[2] = "--lockstop" -> "lockstop"
      [] cmd[1] = "vgchange" /\ cmd[2] = "--activate" /\ cmd[3] = "n" -> "deactivate"
      [] cmd[1] = "vgchange" /\ cmd[2] = "--activate" /\ cmd[3] # "n" -> "activate"
      [] OTHER -> cmd[1]

\* The kinds of command and OS call one mount/unmount call can see fail.
FailKinds ==
    {"none", "probe", "lvs", "lockstart", "activate", "deactivate", "lockstop",
     "mkdir", "createFile", "mount", "umount", "rmdir"}

\* The attributes column of lvs; its fifth character is 'a' for an active volume.
Attr(isActive) ==
    <<"-", "w", "i", "-", IF isActive THEN "a" ELSE "-", "-", "-", "-", "-", "-">>

\* Output of "lvs --noheadings --separator ' '", split in lines and fields.
LvsOutput(act) ==
    [i \in 1..MaxMounts |->
        <<LogicalVolume(i), VolumeGroup(i), Attr(VolumeGroup(i) \in act), "46.59g">>]

\* The node after a command that succeeded.
NodeEffect(w, cmd) ==
    CASE Kind(cmd) = "mount" ->
            [w EXCEPT !.mountTable = @ \cup {<<cmd[4], "on", cmd[5], "type", cmd[3]>>}]
      [] Kind(cmd) = "umount" ->
            [w EXCEPT !.mountTable = {l \in @ : l[3] # cmd[2]}]
      [] Kind(cmd) = "activate" -> [w EXCEPT !.active = @ \cup {cmd[4]}]
      [] Kind(cmd) = "deactivate" -> [w EXCEPT !.active = @ \ {cmd[4]}]
      [] OTHER -> w

\* What a command prints.
Output(w, cmd) ==
    CASE Kind(cmd) = "probe" -> w.mountTable
      [] Kind(cmd) = "lvs" -> LvsOutput(w.active)
      [] OTHER -> {}

\* An error value: its text, whether it is a fatal resource error, and
\* raisedBy, the mount path of the mount/unmount call that created the value
\* ("" until the call returns it).  The error of a command that failed is the
\* exit status, whatever the command.
Error(text, fatal) == [text |-> text, fatal |-> fatal, raisedBy |-> ""]
Nil == Error("nil", FALSE)
ExitError == Error("exit status", FALSE)
RaisedBy(err, info) == IF err = Nil THEN Nil ELSE [err EXCEPT !.raisedBy = info.mountPath]

---------------------------------------------------------------------------
(* The daemon's helpers.  w = [mountTable, active, ops] is the node and   *)
(* the log of what the current call executed; fail is the kind of command *)
(* that fails during this call.                                           *)

\* The log of the call with one more command or OS call.
Logged(w, cmd, ok) == [w EXCEPT !.ops = Append(@, [cmd |-> cmd, ok |-> ok])]

\* A run that executes the command in mock mode too.
runAlways(w, cmd, fail) ==
    IF fail # Kind(cmd)
    THEN [w |-> NodeEffect(Logged(w, cmd, TRUE), cmd), ok |-> TRUE, output |-> Output(w, cmd)]
    ELSE [w |-> Logged(w, cmd, FALSE), ok |-> FALSE, output |-> Output(w, cmd)]

\* run: in mock mode nothing is executed and "" is returned.
run(w, cmd, fail) ==
    IF Mock
    THEN [w |-> w, ok |-> TRUE, output |-> {}]
    ELSE IF fail # Kind(cmd)
    THEN [w |-> NodeEffect(Logged(w, cmd, TRUE), cmd), ok |-> TRUE, output |-> Output(w, cmd)]
    ELSE [w |-> Logged(w, cmd, FALSE), ok |-> FALSE, output |-> Output(w, cmd)]

\* os.WriteFile / os.Remove / os.MkdirAll: an OS call, logged like a command.
oscall(w, cmd, fail) ==
    IF Mock
    THEN [w |-> w, ok |-> TRUE]
    ELSE [w |-> Logged(w, cmd, fail # Kind(cmd)), ok |-> fail # Kind(cmd)]

createFile(w, path, fail) == oscall(w, <<"createFile", path>>, fail)
rmdir(w, path, fail) == oscall(w, <<"rmdir", path>>, fail)
mkdir(w, path, fail) == oscall(w, <<"mkdir", path>>, fail)

\* filepath.Dir of a mount path of the model
Dir(path) == "/mnt"

\* A checkMount that takes the path for mounted when any field of a line is
\* the path.
checkMountOutputAnyField(r, mountPath) ==
    IF ~r.ok
    THEN [w |-> r.w, state |-> ClientMountStateUnmounted,
          err |-> Error("resource error: exit status", FALSE)]
    ELSE IF \E fields \in r.output : \E k \in DOMAIN fields : fields[k] = mountPath
    THEN [w |-> r.w, state |-> ClientMountStateMounted, err |-> Nil]
    ELSE [w |-> r.w, state |-> ClientMountStateUnmounted, err |-> Nil]

\* checkMount, r being what run("mount") returned.
checkMountOutput(r, mountPath) ==
    IF ~r.ok
    THEN [w |-> r.w, state |-> ClientMountStateUnmounted,
          err |-> Error("resource error: exit status", FALSE)]
    ELSE IF \E fields \in r.output : Len(fields) >= 3 /\ fields[3] = mountPath
    THEN [w |-> r.w, state |-> ClientMountStateMounted, err |-> Nil]
    ELSE [w |-> r.w, state |-> ClientMountStateUnmounted, err |-> Nil]

checkMount(w, mountPath, fail) == checkMountOutput(run(w, <<"mount">>, fail), mountPath)

Min(S) == CHOOSE x \in S : \A y \in S : x <= y

\* What a step of a helper returns: the node and log, and the error.
Ret(w, err) == [w |-> w, err |-> err]
\* What a command that ends a helper returns: err if it failed.
RetRun(r, err) == [w |-> r.w, err |-> IF r.ok THEN Nil ELSE err]

lvsCmd == <<"lvs", "--noheadings", "--separator", "' '">>
lockstartCmd(vg) == <<"vgchange", "--lockstart", vg>>
lockstopCmd(vg) == <<"vgchange", "--lockstop", vg>>
activateCmd(sharedOption, vg) == <<"vgchange", "--activate", sharedOption \o "y", vg>>
deactivateCmd(vg) == <<"vgchange", "--activate", "n", vg>>

AccessError == Error("Client could not access storage", TRUE)
ReleaseError == Error("Client could not release storage", TRUE)

\* An activation that goes on although the lock start failed.
activateUnlocked(l, lvm, shared, fail) ==
    RetRun(run(l.w, activateCmd(IF shared THEN "s" ELSE "", lvm.volumeGroup), fail),
           AccessError)

\* Activation of an inactive volume, l being what the lock start returned.
activateLocked(l, lvm, shared, fail) ==
    IF ~l.ok THEN Ret(l.w, AccessError)
    ELSE RetRun(run(l.w, activateCmd(IF shared THEN "s" ELSE "", lvm.volumeGroup), fail),
                AccessError)

\* A deactivation that goes on to the lock stop although the deactivate failed.
deactivatedAnyway(d, lvm, shared, fail) ==
    IF shared THEN RetRun(run(d.w, lockstopCmd(lvm.volumeGroup), fail), ReleaseError)
    ELSE Ret(d.w, Nil)

\* Deactivation of an active volume, d being what the deactivation returned.
deactivated(d, lvm, shared, fail) ==
    IF ~d.ok THEN Ret(d.w, ReleaseError)
    ELSE IF shared THEN RetRun(run(d.w, lockstopCmd(lvm.volumeGroup), fail), ReleaseError)
    ELSE Ret(d.w, Nil)

\* A loop body that changes the activation whatever the line says of it.
configureLineAlways(w, fields, lvm, activate, shared, fail) ==
    IF activate
    THEN activateLocked(IF shared THEN run(w, lockstartCmd(lvm.volumeGroup), fail)
                        ELSE [w |-> w, ok |-> TRUE],
                        lvm, shared, fail)
    ELSE deactivated(run(w, deactivateCmd(lvm.volumeGroup), fail), lvm, shared, fail)

\* The body of the loop over the lines of lvs for the line that matches.
configureLine(w, fields, lvm, activate, shared, fail) ==
    IF activate /\ ~(fields[3][5] = "a")
    THEN activateLocked(IF shared THEN run(w, lockstartCmd(lvm.volumeGroup), fail)
                        ELSE [w |-> w, ok |-> TRUE],
                        lvm, shared, fail)
    ELSE IF ~activate /\ (fields[3][5] = "a")
    THEN deactivated(run(w, deactivateCmd(lvm.volumeGroup), fail), lvm, shared, fail)
    ELSE Ret(w, Nil)

\* A match of the lines of lvs on the name of the volume group alone.
HitsVolumeGroup(lines, lvm) ==
    {i \in DOMAIN lines : Len(lines[i]) >= 3 /\ lines[i][2] = lvm.volumeGroup}

\* The lines of lvs the loop does not skip.
Hits(lines, lvm) ==
    {i \in DOMAIN lines :
        /\ Len(lines[i]) >= 3
        /\ lines[i][1] = lvm.logicalVolume
        /\ lines[i][2] = lvm.volumeGroup}

\* configureLVMDevice, r being what run("lvs ...") returned.
configureLvsOutput(r, lvm, activate, shared, fail) ==
    IF ~r.ok THEN Ret(r.w, ExitError)
    ELSE IF Mock THEN Ret(r.w, Nil)
    ELSE IF Hits(r.output, lvm) = {}
    THEN Ret(r.w, Error("Could not find VG/LV pair", TRUE))
    ELSE configureLine(r.w, r.output[Min(Hits(r.output, lvm))], lvm, activate, shared, fail)

configureLVMDevice(w, lvm, activate, shared, fail) ==
    configureLvsOutput(run(w, lvsCmd, fail), lvm, activate, shared, fail)

\* getDevice for an LVM device, c being what configureLVMDevice returned.
lvmDevice(c, lvm) ==
    IF c.err # Nil THEN [w |-> c.w, err |-> c.err, device |-> ""]
    ELSE [w |-> c.w, err |-> Nil,
          device |-> "/dev/" \o lvm.volumeGroup \o "/" \o lvm.logicalVolume]

\* A getDevice that yields an empty device for a device type it does not know.
getDeviceAny(w, info, fail) ==
    IF info.device.type = ClientMountDeviceTypeLustre
    THEN [w |-> w, err |-> Nil,
          device |-> info.device.lustre.mgsAddresses \o ":/"
                        \o info.device.lustre.fileSystemName]
    ELSE IF info.device.type = ClientMountDeviceTypeLVM
    THEN lvmDevice(configureLVMDevice(w, info.device.lvm, TRUE, info.type = "gfs2", fail),
                   info.device.lvm)
    ELSE [w |-> w, err |-> Nil, device |-> ""]

\* A getDevice that asks for the shared activation of every logical volume.
getDeviceShared(w, info, fail) ==
    IF info.device.type = ClientMountDeviceTypeLustre
    THEN [w |-> w, err |-> Nil,
          device |-> info.device.lustre.mgsAddresses \o ":/"
                        \o info.device.lustre.fileSystemName]
    ELSE IF info.device.type = ClientMountDeviceTypeLVM
    THEN lvmDevice(configureLVMDevice(w, info.device.lvm, TRUE, TRUE, fail),
                   info.device.lvm)
    ELSE [w |-> w, err |-> Error("Invalid device type", FALSE), device |-> ""]

getDevice(w, info, fail) ==
    IF info.device.type = ClientMountDeviceTypeLustre
    THEN [w |-> w, err |-> Nil,
          device |-> info.device.lustre.mgsAddresses \o ":/"
                        \o info.device.lustre.fileSystemName]
    ELSE IF info.device.type = ClientMountDeviceTypeLVM
    THEN lvmDevice(configureLVMDevice(w, info.device.lvm, TRUE, info.type = "gfs2", fail),
                   info.device.lvm)
    ELSE [w |-> w, err |-> Error("Invalid device type", FALSE), device |-> ""]

\* The file case of the switch, d being what mkdir of the parent returned.
createFileIn(d, info, fail) ==
    IF ~d.ok THEN Ret(d.w, Error("mkdir", FALSE))
    ELSE RetRun(createFile(d.w, info.mountPath, fail), Error("open", FALSE))

\* The switch of mount on TargetType: create the mount file or directory.
createTarget(w, info, fail) ==
    IF info.targetType = "directory"
    THEN RetRun(mkdir(w, info.mountPath, fail), Error("mkdir", FALSE))
    ELSE IF info.targetType = "file"
    THEN createFileIn(mkdir(w, Dir(info.mountPath), fail), info, fail)
    ELSE Ret(w, Nil)

mountCmd(info, device) ==
    <<"mount", "-t", info.type, device, info.mountPath>>
        \o (IF info.options # "" THEN <<"-o", info.options>> ELSE <<>>)

\* mount, t being what the creation of the target returned.
mountTarget(t, device, info, fail) ==
    IF t.err # Nil THEN Ret(t.w, RaisedBy(t.err, info))
    ELSE RetRun(run(t.w, mountCmd(info, device), fail), RaisedBy(ExitError, info))

\* A mount that goes on to the target and the mount command although
\* getDevice returned an error.
mountDeviceAnyway(d, info, fail) ==
    mountTarget(createTarget(d.w, info, fail), d.device, info, fail)

\* mount, d being what getDevice returned.
mountDevice(d, info, fail) ==
    IF d.err # Nil THEN Ret(d.w, RaisedBy(d.err, info))
    ELSE mountTarget(createTarget(d.w, info, fail), d.device, info, fail)

\* A mount that goes on to the device and the mount command although the
\* path is mounted.
mountCheckedRemount(c, info, fail) ==
    IF c.err # Nil THEN Ret(c.w, RaisedBy(c.err, info))
    ELSE mountDevice(getDevice(c.w, info, fail), info, fail)

\* mount, c being what checkMount returned.
mountChecked(c, info, fail) ==
    IF c.err # Nil THEN Ret(c.w, RaisedBy(c.err, info))
    ELSE IF c.state = ClientMountStateMounted THEN Ret(c.w, Nil)
    ELSE mountDevice(getDevice(c.w, info, fail), info, fail)

mount(w, info, fail) == mountChecked(checkMount(w, info.mountPath, fail), info, fail)

\* An unmount that returns the failure of the directory removal.
unmountDeactivatedStrict(l, info, fail) ==
    IF l.err # Nil THEN Ret(l.w, RaisedBy(l.err, info))
    ELSE RetRun(rmdir(l.w, info.mountPath, fail), RaisedBy(Error("remove", FALSE), info))

\* unmount, l being what the deactivation of the volume returned.
unmountDeactivated(l, info, fail) ==
    IF l.err # Nil THEN Ret(l.w, RaisedBy(l.err, info))
    ELSE Ret(rmdir(l.w, info.mountPath, fail).w, Nil)

\* An unmount that goes on to the volume although the umount command failed.
unmountDoneAnyway(u, info, fail) ==
    unmountDeactivated(
        IF info.device.type = ClientMountDeviceTypeLVM
        THEN configureLVMDevice(u.w, info.device.lvm, FALSE, info.type = "gfs2", fail)
        ELSE Ret(u.w, Nil),
        info, fail)

\* An unmount that deactivates every logical volume as a shared one.
unmountDoneShared(u, info, fail) ==
    IF ~u.ok THEN Ret(u.w, RaisedBy(ExitError, info))
    ELSE unmountDeactivated(
            IF info.device.type = ClientMountDeviceTypeLVM
            THEN configureLVMDevice(u.w, info.device.lvm, FALSE, TRUE, fail)
            ELSE Ret(u.w, Nil),
            info, fail)

\* unmount, u being what the umount command returned.
unmountDone(u, info, fail) ==
    IF ~u.ok THEN Ret(u.w, RaisedBy(ExitError, info))
    ELSE unmountDeactivated(
            IF info.device.type = ClientMountDeviceTypeLVM
            THEN configureLVMDevice(u.w, info.device.lvm, FALSE, info.type = "gfs2", fail)
            ELSE Ret(u.w, Nil),
            info, fail)

umountCmd(info) == <<"umount", info.mountPath>>

\* An unmount that has nothing to do for a path that is not mounted.
unmountCheckedMountedOnly(c, info, fail) ==
    IF c.err # Nil THEN Ret(c.w, RaisedBy(c.err, info))
    ELSE IF c.state # ClientMountStateMounted THEN Ret(c.w, Nil)
    ELSE unmountDone(run(c.w, umountCmd(info), fail), info, fail)

\* An unmount that goes on although the probe of the mount table failed.
unmountCheckedAnyway(c, info, fail) ==
    unmountDone(IF c.state = ClientMountStateMounted
                THEN run(c.w, umountCmd(info), fail)
                ELSE [w |-> c.w, ok |-> TRUE],
                info, fail)

\* unmount, c being what checkMount returned.
unmountChecked(c, info, fail) ==
    IF c.err # Nil THEN Ret(c.w, RaisedBy(c.err, info))
    ELSE unmountDone(IF c.state = ClientMountStateMounted
                     THEN run(c.w, umountCmd(info), fail)
                     ELSE [w |-> c.w, ok |-> TRUE],
                     info, fail)

unmount(w, info, fail) == unmountChecked(checkMount(w, info.mountPath, fail), info, fail)

---------------------------------------------------------------------------
(* The resource and the bookkeeping of a pass. *)

\* The zero value of ClientMountInfoStatus, as make([]...) yields it.
ZeroStatus == [state |-> "", ready |-> FALSE, message |-> ""]

\* ctrl.Result
Result(requeue, requeueAfter) == [requeue |-> requeue, requeueAfter |-> requeueAfter]
NoResult == Result(FALSE, 0)

\* No status update was dropped.
NoDrop == [is |-> FALSE, status |-> [mounts |-> <<>>, error |-> Nil], failed |-> {}]

\* The status update that met a conflict: the status it was to write, and the
\* entries whose call had failed in that pass.
Drop(st, failed) == [is |-> TRUE, status |-> st, failed |-> failed]

NoPass ==
    [branch |-> "none", done |-> TRUE, fin0 |-> FALSE, status0 |-> [mounts |-> <<>>, error |-> Nil],
     retried |-> FALSE, calls |-> <<>>, failed |-> {}, soft |-> {},
     result |-> NoResult, err |-> Nil, panicked |-> FALSE, wrote |-> FALSE,
     dropped |-> NoDrop]

\* A pass that starts now and takes `branch`; it remembers the status update
\* that the pass before it dropped.
NewPass(branch) ==
    [NoPass EXCEPT !.branch = branch, !.done = FALSE, !.fin0 = finalizer, !.status0 = status,
                   !.retried = timer, !.dropped = pass.dropped]

\* checkMount was not called on its own.
NoProbe == [path |-> "", failed |-> FALSE, state |-> "", err |-> Nil]

\* The catalogs resources are drawn from: every second rotation of Profiles.
Catalogs == {k \in 1..Len(Profiles) : k % 2 = 1}

\* A resource just created, not yet seen by its reconciler, on a clean node.
Created ==
    /\ owner \in {"daemon", "controller"}
    /\ Mock \in BOOLEAN
    /\ (owner = "controller" => ~Mock)
    /\ catalog \in Catalogs
    /\ exists = TRUE
    /\ deleting = FALSE
    /\ finalizer = FALSE
    /\ \E n \in 0..MaxMounts, d \in {ClientMountStateMounted, ClientMountStateUnmounted} :
          spec = [mounts |-> Mounts(catalog, n), desiredState |-> d]
    /\ status = [mounts |-> <<>>, error |-> Nil]
    /\ mountTable = {}
    /\ active = {}
    /\ pc = "idle"
    /\ idx = 0
    /\ firstError = Nil
    /\ pass = NoPass
    /\ ops = <<>>
    /\ lastErr = Nil
    /\ queued = TRUE
    /\ timer = FALSE
    /\ probed = NoProbe

\* No other client writes the resource while a pass runs.
Init == Created /\ contention = FALSE

\* Whether the status update of a pass meets a conflict.
Conflicts == IF contention THEN BOOLEAN ELSE {FALSE}

\* The deferred status update of the daemon: the status is written when it
\* differs from the copy taken at the start of the pass; a write that meets a
\* conflict is dropped.  Yields the stored status.
CloseWithStatusUpdate(st, st0, conflict) ==
    IF st # st0 /\ ~conflict THEN st ELSE st0

\* A status re-creation that keeps the entries the status has and cuts or
\* fills it to the length of the spec.
createStatusKeep(st, sp) ==
    [st EXCEPT !.mounts = [i \in 1..Len(sp.mounts) |->
        IF i <= Len(st.mounts) THEN st.mounts[i]
        ELSE [state |-> sp.desiredState, ready |-> FALSE, message |-> ""]]]

\* Status re-creation: make([]ClientMountInfoStatus, len(Spec.Mounts)) when the
\* lengths differ.
createStatus(st, sp) ==
    IF Len(st.mounts) # Len(sp.mounts)
    THEN [st EXCEPT !.mounts = [i \in 1..Len(sp.mounts) |-> ZeroStatus]]
    ELSE st

\* A status initialisation that sets the state and keeps the ready flags.
initStatusKeepReady(st, sp) ==
    [st EXCEPT !.mounts = [i \in 1..Len(st.mounts) |->
        [st.mounts[i] EXCEPT !.state = sp.desiredState]]]

\* Status initialisation of the daemon when the desired state changed.
initStatus(st, sp) ==
    [st EXCEPT !.mounts = [i \in 1..Len(st.mounts) |->
        [st.mounts[i] EXCEPT !.state = sp.desiredState, !.ready = FALSE]]]

\* A finalizer test that finds the finalizer on every resource.
ContainsFinalizerAlways(fin) == TRUE

\* controllerutil.ContainsFinalizer(clientMount, finalizerClientMount)
ContainsFinalizer(fin) == fin

\* The pass returns: the deferred status update runs and the request is
\* queued again when the result or the error asks for it, and when the pass
\* wrote the resource (updated: r.Update succeeded; a written status), which
\* the watch reports back.
Return(p, st, res, err, panicked, conflict, updated) ==
    LET stored == CloseWithStatusUpdate(st, p.status0, conflict)
        wrote == stored # p.status0
    IN  /\ status' = stored
        /\ pass' = [p EXCEPT !.done = TRUE, !.result = res, !.err = err,
                             !.panicked = panicked, !.wrote = wrote,
                             !.dropped = IF st # p.status0 /\ conflict
                                         THEN Drop(st, p.failed) ELSE NoDrop]
        /\ queued' = (res.requeue \/ err # Nil \/ panicked \/ wrote \/ updated
                        \/ (st # p.status0 /\ conflict))
        /\ timer' = (res.requeueAfter > 0)
        /\ pc' = "idle"
        /\ idx' = 0
        /\ firstError' = Nil

---------------------------------------------------------------------------
(* Reconcile of the mount daemon, up to the call of mountAll / unmountAll. *)

ReconcileEnter ==
    /\ owner = "daemon"
    /\ pc = "idle"
    /\ queued \/ timer
    /\ UNCHANGED <<probed, owner, Mock, catalog, contention, exists, deleting, spec, mountTable, active>>
    /\ ops' = <<>>
    /\ lastErr' = Nil
    /\ IF ~exists
       THEN \* r.Get: not found
            /\ Return(NewPass("notfound"), status, NoResult, Nil, FALSE, FALSE, FALSE)
            /\ UNCHANGED finalizer
       ELSE IF deleting
       THEN IF ~ContainsFinalizer(finalizer)
            THEN /\ Return(NewPass("nofinalizer"), status, NoResult, Nil, FALSE, FALSE, FALSE)
                 /\ UNCHANGED finalizer
            ELSE /\ pass' = NewPass("teardown")
                 /\ pc' = "unmountAll"
                 /\ idx' = 1
                 /\ firstError' = Nil
                 /\ queued' = FALSE
                 /\ timer' = FALSE
                 /\ UNCHANGED <<finalizer, status>>
       ELSE
       LET st1 == createStatus(status, spec) IN
       IF Len(st1.mounts) = 0
       THEN \* Status.Mounts[0]: index out of range
            /\ \E conflict \in Conflicts :
                  Return(NewPass("panic"), st1, NoResult, Nil, TRUE, conflict, FALSE)
            /\ UNCHANGED finalizer
       ELSE IF st1.mounts[1].state # spec.desiredState
       THEN /\ \E conflict \in Conflicts :
                  Return(NewPass("transition"), initStatus(st1, spec), NoResult, Nil,
                         FALSE, conflict, FALSE)
            /\ UNCHANGED finalizer
       ELSE IF ~ContainsFinalizer(finalizer)
       THEN \* AddFinalizer and r.Update, which may fail
            /\ \E updated \in BOOLEAN :
                  /\ finalizer' = updated
                  /\ Return(NewPass("addFinalizer"), st1, Result(~updated, 0), Nil,
                            FALSE, FALSE, updated)
       ELSE /\ pass' = NewPass("steady")
            /\ status' = [st1 EXCEPT !.error = Nil]
            /\ pc' = IF spec.desiredState = ClientMountStateMounted
                     THEN "mountAll" ELSE "unmountAll"
            /\ idx' = 1
            /\ firstError' = Nil
            /\ queued' = FALSE
            /\ timer' = FALSE
            /\ UNCHANGED finalizer

---------------------------------------------------------------------------
(* mountAll / unmountAll: one iteration of the loop over spec.mounts. *)

\* A loop body that marks the entry ready whatever the call returned.
loopBodyAllReady(st, fe, i, err) ==
    [status |-> [st EXCEPT !.mounts[i].ready = TRUE],
     firstError |-> IF err # Nil /\ fe = Nil THEN err ELSE fe]

\* A loop body that keeps the latest error instead of the first.
loopBodyLastError(st, fe, i, err) ==
    [status |-> [st EXCEPT !.mounts[i].ready = (err = Nil)],
     firstError |-> IF err # Nil THEN err ELSE fe]

\* The body of the loop after the call returned err for entry i.
loopBody(st, fe, i, err) ==
    [status |-> [st EXCEPT !.mounts[i].ready = (err = Nil)],
     firstError |-> IF err # Nil /\ fe = Nil THEN err ELSE fe]

\* The history of the pass after the call for entry i returned err with the
\* log `log`: the entries called, those whose call returned an error, and those
\* whose call returned nil although one of its commands or OS calls failed.
Called(p, i, err, log) ==
    [p EXCEPT !.calls = Append(@, i),
              !.failed = IF err # Nil THEN @ \cup {i} ELSE @,
              !.soft = IF err = Nil /\ (\E k \in DOMAIN log : ~log[k].ok)
                       THEN @ \cup {i} ELSE @]

Node == [mountTable |-> mountTable, active |-> active, ops |-> <<>>]

mountAllStep ==
    /\ pc = "mountAll"
    /\ idx <= Len(spec.mounts)
    /\ \E fail \in FailKinds :
          LET r == mount(Node, spec.mounts[idx], fail)
              b == loopBody(status, firstError, idx, r.err)
          IN  /\ mountTable' = r.w.mountTable
              /\ active' = r.w.active
              /\ ops' = r.w.ops
              /\ lastErr' = r.err
              /\ status' = b.status
              /\ firstError' = b.firstError
              /\ pass' = Called(pass, idx, r.err, r.w.ops)
    /\ idx' = idx + 1
    /\ UNCHANGED <<probed, owner, Mock, catalog, contention, exists, deleting, finalizer, spec, pc,
                   queued, timer>>

unmountAllStep ==
    /\ pc = "unmountAll"
    /\ idx <= Len(spec.mounts)
    /\ \E fail \in FailKinds :
          LET r == unmount(Node, spec.mounts[idx], fail) IN
          /\ mountTable' = r.w.mountTable
          /\ active' = r.w.active
          /\ ops' = r.w.ops
          /\ lastErr' = r.err
          /\ IF idx <= Len(status.mounts)
             THEN LET b == loopBody(status, firstError, idx, r.err) IN
                  /\ status' = b.status
                  /\ firstError' = b.firstError
                  /\ pass' = Called(pass, idx, r.err, r.w.ops)
                  /\ idx' = idx + 1
                  /\ UNCHANGED <<pc, queued, timer>>
             ELSE \* Status.Mounts[i]: index out of range
                  /\ \E conflict \in Conflicts :
                        Return(Called(pass, idx, r.err, r.w.ops), status, NoResult, Nil, TRUE,
                               conflict, FALSE)
    /\ UNCHANGED <<probed, owner, Mock, catalog, contention, exists, deleting, finalizer, spec>>

---------------------------------------------------------------------------
(* Reconcile of the mount daemon after mountAll / unmountAll returned. *)

\* The resource error of the status: its message and the call whose error it wraps.
NewResourceError(message, err) == [message |-> message, raisedBy |-> err.raisedBy]

\* A steady outcome that asks for the retry whether or not an entry failed.
steadyOutcomeAlwaysRetry(st, sp, err) ==
    [status |-> IF err # Nil
                THEN [st EXCEPT !.error =
                        NewResourceError(IF sp.desiredState = ClientMountStateMounted
                                         THEN "Mount failed" ELSE "Unmount failed", err)]
                ELSE st,
     result |-> Result(FALSE, RequeueDelay)]

\* A steady outcome that records the error and asks for no retry.
steadyOutcomeNoRetry(st, sp, err) ==
    [status |-> IF err # Nil
                THEN [st EXCEPT !.error =
                        NewResourceError(IF sp.desiredState = ClientMountStateMounted
                                         THEN "Mount failed" ELSE "Unmount failed", err)]
                ELSE st,
     result |-> NoResult]

\* The status and result of a steady pass whose mountAll/unmountAll returned err.
steadyOutcome(st, sp, err) ==
    IF err # Nil
    THEN [status |-> [st EXCEPT !.error =
                        NewResourceError(IF sp.desiredState = ClientMountStateMounted
                                         THEN "Mount failed" ELSE "Unmount failed", err)],
          result |-> Result(FALSE, RequeueDelay)]
    ELSE [status |-> st, result |-> NoResult]

\* A teardown that removes the finalizer whatever unmountAll returned.
removeFinalizerAlways(err) == TRUE

\* Whether the teardown pass removes the finalizer, unmountAll having returned err.
removeFinalizer(err) == err = Nil

ReconcileExit ==
    /\ pc \in {"mountAll", "unmountAll"}
    /\ idx > Len(spec.mounts)
    /\ UNCHANGED <<probed, owner, Mock, catalog, contention, deleting, spec, mountTable, active>>
    /\ ops' = <<>>
    /\ lastErr' = Nil
    /\ IF pass.branch = "teardown"
       THEN IF ~removeFinalizer(firstError)
            THEN /\ \E conflict \in Conflicts :
                       Return(pass, status, NoResult, firstError, FALSE, conflict, FALSE)
                 /\ UNCHANGED <<finalizer, exists>>
            ELSE \E updated \in BOOLEAN :
                    IF updated
                    THEN \* the finalizer is gone and with it the resource
                         /\ finalizer' = FALSE
                         /\ exists' = FALSE
                         /\ Return(pass, pass.status0, NoResult, Nil, FALSE, FALSE, FALSE)
                    ELSE /\ \E conflict \in Conflicts :
                               Return(pass, status, NoResult,
                                      Error("update", FALSE), FALSE,
                                      conflict, FALSE)
                         /\ UNCHANGED <<finalizer, exists>>
       ELSE LET o == steadyOutcome(status, spec, firstError) IN
            /\ \E conflict \in Conflicts :
                  Return(pass, o.status, o.result, Nil, FALSE, conflict, FALSE)
            /\ UNCHANGED <<finalizer, exists>>

---------------------------------------------------------------------------
(* Reconcile of the DWS controller (src/controllers): no node work. *)

\* Status initialisation of the controller when the desired state changed.
initStatusController(st, sp) ==
    [st EXCEPT !.mounts = [i \in 1..Len(st.mounts) |->
        [state |-> sp.desiredState, ready |-> FALSE, message |-> ""]]]

\* The loop that ends the controller's Reconcile.
setReadyController(st, sp) ==
    [st EXCEPT !.mounts = [i \in 1..Len(st.mounts) |->
        IF i <= Len(sp.mounts)
        THEN [st.mounts[i] EXCEPT !.message = "", !.ready = TRUE]
        ELSE st.mounts[i]]]

\* A close that takes the update for written although it met a conflict.
closeUnchecked(st, st0, err, conflict) ==
    IF err = Nil /\ st # st0 THEN st ELSE st0

\* clientMountStatusUpdater.close, which the controller calls only when the
\* pass returns no error.
close(st, st0, err, conflict) ==
    IF err = Nil /\ st # st0 /\ ~conflict THEN st ELSE st0

ReturnController(p, st, res, err, panicked, conflict, updated) ==
    LET stored == close(st, p.status0, err, conflict)
        wrote == stored # p.status0
    IN  /\ status' = stored
        /\ pass' = [p EXCEPT !.done = TRUE, !.result = res, !.err = err,
                             !.panicked = panicked, !.wrote = wrote,
                             !.dropped = IF err = Nil /\ st # p.status0 /\ conflict
                                         THEN Drop(st, p.failed) ELSE NoDrop]
        /\ queued' = (res.requeue \/ err # Nil \/ panicked \/ wrote \/ updated
                        \/ (st # p.status0 /\ conflict))
        /\ timer' = FALSE
        /\ pc' = "idle"
        /\ idx' = 0
        /\ firstError' = Nil

ReconcileController ==
    /\ owner = "controller"
    /\ pc = "idle"
    /\ queued
    /\ UNCHANGED <<probed, owner, Mock, catalog, contention, deleting, spec, mountTable, active, ops, lastErr>>
    /\ IF ~exists
       THEN /\ ReturnController(NewPass("notfound"), status, NoResult, Nil, FALSE, FALSE, FALSE)
            /\ UNCHANGED <<finalizer, exists>>
       ELSE IF deleting
       THEN IF ~finalizer
            THEN /\ ReturnController(NewPass("nofinalizer"), status, NoResult, Nil,
                                     FALSE, FALSE, FALSE)
                 /\ UNCHANGED <<finalizer, exists>>
            ELSE \E updated \in BOOLEAN :
                    /\ finalizer' = ~updated
                    /\ exists' = ~updated
                    /\ ReturnController(NewPass("teardown"), status, NoResult,
                                        IF updated THEN Nil
                                        ELSE Error("update", FALSE),
                                        FALSE, FALSE, FALSE)
       ELSE
       LET st1 == createStatus(status, spec) IN
       IF Len(st1.mounts) = 0
       THEN /\ \E conflict \in Conflicts :
                  ReturnController(NewPass("panic"), st1, NoResult, Nil, TRUE, conflict, FALSE)
            /\ UNCHANGED <<finalizer, exists>>
       ELSE IF st1.mounts[1].state # spec.desiredState
       THEN /\ \E conflict \in Conflicts :
                  ReturnController(NewPass("transition"), initStatusController(st1, spec),
                                   NoResult, Nil, FALSE, conflict, FALSE)
            /\ UNCHANGED <<finalizer, exists>>
       ELSE IF ~finalizer
       THEN /\ \E updated \in BOOLEAN :
                  /\ finalizer' = updated
                  /\ ReturnController(NewPass("addFinalizer"), st1, Result(~updated, 0), Nil,
                                      FALSE, FALSE, updated)
            /\ UNCHANGED exists
       ELSE /\ \E conflict \in Conflicts :
                  ReturnController(NewPass("steady"), setReadyController(st1, spec),
                                   NoResult, Nil, FALSE, conflict, FALSE)
            /\ UNCHANGED <<finalizer, exists>>

---------------------------------------------------------------------------
(* The control plane, which owns the spec and requests the deletion. *)

\* A change of the resource ends what the record of the last pass says about it.
Forget ==
    /\ pass' = NoPass
    /\ ops' = <<>>
    /\ lastErr' = Nil
    /\ idx' = 0
    /\ firstError' = Nil

Other(d) ==
    IF d = ClientMountStateMounted THEN ClientMountStateUnmounted
    ELSE ClientMountStateMounted

SetDesiredState ==
    /\ pc = "idle" /\ exists /\ ~deleting
    /\ spec' = [spec EXCEPT !.desiredState = Other(@)]
    /\ queued' = TRUE
    /\ Forget
    /\ UNCHANGED <<probed, owner, Mock, catalog, contention, exists, deleting, finalizer, status, mountTable,
                   active, pc, timer>>

ChangeMounts ==
    /\ pc = "idle" /\ exists /\ ~deleting
    /\ \E n \in 0..MaxMounts :
          /\ n # Len(spec.mounts)
          /\ spec' = [spec EXCEPT !.mounts = Mounts(catalog, n)]
    /\ queued' = TRUE
    /\ Forget
    /\ UNCHANGED <<probed, owner, Mock, catalog, contention, exists, deleting, finalizer, status, mountTable,
                   active, pc, timer>>

\* A resource without finalizer is removed at once.
Delete ==
    /\ pc = "idle" /\ exists /\ ~deleting
    /\ deleting' = TRUE
    /\ exists' = finalizer
    /\ queued' = TRUE
    /\ Forget
    /\ UNCHANGED <<probed, owner, Mock, catalog, contention, finalizer, spec, status, mountTable,
                   active, pc, timer>>

Next ==
    \/ ReconcileEnter
    \/ mountAllStep
    \/ unmountAllStep
    \/ ReconcileExit
    \/ ReconcileController
    \/ SetDesiredState
    \/ ChangeMounts
    \/ Delete

Spec == Init /\ [][Next]_vars

\* Other clients write the resource while a pass runs, so that the status
\* update of a pass may meet a conflict.  The resource is drawn from the first
\* catalog, which has entries that can be mounted and one that cannot.
ContendedInit == Created /\ contention = TRUE /\ catalog = 1

ContendedSpec == ContendedInit /\ [][Next]_vars

---------------------------------------------------------------------------
(* Properties of the passes. *)

\* The indices 1..n in order.
InOrder(n) == [i \in 1..n |-> i]

\* A steady pass of the mount daemon has returned.
SteadyDone ==
    owner = "daemon" /\ pc = "idle" /\ pass.done /\ pass.branch = "steady"

\* The step starts a pass of the reconciler.
StartsPass == pc = "idle" /\ pass'.branch # "none"

\* The step invokes no mount or unmount, executes nothing and leaves the node alone.
NoWork == pass'.calls = <<>> /\ ops' = <<>> /\ UNCHANGED <<mountTable, active>>

\* A command or OS call of one of `kinds` failed in the log.
Failed(log, kinds) == \E k \in DOMAIN log : ~log[k].ok /\ Kind(log[k].cmd) \in kinds

\* The mount table has a line for the path.
MountedAt(path) == \E l \in mountTable : Len(l) >= 3 /\ l[3] = path

\* C1: in a steady pass of the mount daemon mount (desiredState mounted) or
\* unmount (desiredState unmounted) is invoked for every entry of spec.mounts
\* in index order whatever earlier entries returned, and after the pass
\* status.mounts[i].ready is true exactly for the entries whose own call
\* returned no error.
C1_EveryEntryCalledReadyPerEntry ==
    /\ (owner = "daemon" /\ pass.branch = "steady" /\ ~pass.done
            => /\ pass.calls = InOrder(idx - 1)
               /\ pc = IF spec.desiredState = ClientMountStateMounted
                       THEN "mountAll" ELSE "unmountAll")
    /\ (SteadyDone
            => /\ pass.calls = InOrder(Len(spec.mounts))
               /\ Len(status.mounts) = Len(spec.mounts)
               /\ \A i \in DOMAIN spec.mounts :
                     status.mounts[i].ready = (i \notin pass.failed))

\* A steady pass whose first entry failed and whose second entry succeeded.
C1_Witness ==
    /\ SteadyDone
    /\ Len(spec.mounts) = 2
    /\ pass.failed = {1}
    /\ ~status.mounts[1].ready
    /\ status.mounts[2].ready

\* C2: when entries fail in a steady pass the status.error that the pass sets
\* wraps the error of the failing entry of lowest index.
C2_ErrorOfLowestFailingEntry ==
    SteadyDone /\ pass.failed # {}
        => /\ status.error # Nil
           /\ status.error.message =
                 (IF spec.desiredState = ClientMountStateMounted
                  THEN "Mount failed" ELSE "Unmount failed")
           /\ status.error.raisedBy = spec.mounts[Min(pass.failed)].mountPath

\* A steady pass in which two entries failed.
C2_Witness ==
    /\ SteadyDone
    /\ Cardinality(pass.failed) >= 2
    /\ status.error.raisedBy = spec.mounts[1].mountPath

\* C3: a pass that starts without the finalizer invokes no mount and no
\* unmount, executes no command and no OS call and leaves the node as it is;
\* the finalizer is attached only by a pass that does none of these.
C3_NoWorkBeforeFinalizer ==
    [][ /\ (~pass'.fin0 => NoWork)
        /\ (~finalizer /\ finalizer'
                => pass'.done /\ pass'.branch = "addFinalizer" /\ NoWork) ]_vars

\* The daemon attached the finalizer to a resource with mounts to make, in a
\* pass that made none.
C3_Witness ==
    /\ owner = "daemon"
    /\ pass.done /\ pass.branch = "addFinalizer" /\ ~pass.fin0
    /\ finalizer
    /\ Len(spec.mounts) > 0
    /\ spec.desiredState = ClientMountStateMounted
    /\ mountTable = {}

\* The step that removes the finalizer belongs to a teardown pass that
\* invoked unmount for every entry of spec.mounts, none of which failed.
RemovedAfterUnmountingAll ==
    finalizer /\ ~finalizer'
        => /\ deleting
           /\ pass'.branch = "teardown"
           /\ pass'.calls = InOrder(Len(spec.mounts))
           /\ pass'.failed = {}

\* C4 as claimed of both reconcilers: the finalizer is removed only in a
\* teardown pass in which the unmount of every entry has just succeeded.
C4_AsClaimed == [][RemovedAfterUnmountingAll]_vars

\* C4: the mount daemon removes the finalizer only in a teardown pass in which
\* the unmount of every entry has just succeeded; the DWS controller removes
\* it in the teardown pass without unmounting anything.
C4_FinalizerRemoval ==
    [][ /\ (owner = "daemon" => RemovedAfterUnmountingAll)
        /\ (owner = "controller" /\ finalizer /\ ~finalizer'
                => deleting /\ pass'.branch = "teardown" /\ NoWork) ]_vars

\* The daemon removed the finalizer after unmounting two entries.
C4_Witness ==
    /\ owner = "daemon"
    /\ pass.done /\ pass.branch = "teardown" /\ pass.fin0
    /\ ~finalizer
    /\ ~Mock
    /\ pass.calls = InOrder(2)
    /\ pass.failed = {}

\* A teardown pass of the mount daemon.
Teardown == owner = "daemon" /\ pass.branch = "teardown"

\* The entry of the latest call of the pass.
LastCalled == pass.calls[Len(pass.calls)]

\* C5: in a teardown pass a failed unmount command or a failed volume
\* deactivation (deactivate or lock stop) makes the unmount of the entry return
\* an error, and a pass with such an entry keeps the finalizer and returns an
\* error; a failed removal of the mount directory leaves the unmount of the
\* entry successful, and a pass all of whose entries are so removes the
\* finalizer (unless the update of the resource is refused).
C5_TeardownFailures ==
    /\ (Teardown /\ Failed(ops, {"umount", "deactivate", "lockstop"})
            => lastErr # Nil /\ LastCalled \in pass.failed)
    /\ (Teardown /\ Failed(ops, {"rmdir"})
            => lastErr = Nil /\ LastCalled \in pass.soft /\ LastCalled \notin pass.failed)
    /\ (Teardown /\ pass.done /\ ~pass.panicked /\ pass.failed # {}
            => finalizer /\ exists /\ pass.err # Nil)
    /\ (Teardown /\ pass.done /\ ~pass.panicked /\ pass.failed = {}
            => ~finalizer \/ pass.err = Error("update", FALSE))

\* A teardown pass removed the finalizer although the removal of a mount
\* directory failed.
C5_Witness ==
    /\ Teardown /\ pass.done
    /\ ~finalizer
    /\ pass.soft # {}
    /\ pass.failed = {}

\* The resource is not being deleted and a recorded state differs from the
\* desired state.
StateDiffers ==
    /\ exists /\ ~deleting
    /\ Len(status.mounts) = Len(spec.mounts)
    /\ \E i \in DOMAIN status.mounts : status.mounts[i].state # spec.desiredState

\* C6: a pass that starts on a resource not being deleted whose recorded state
\* differs from spec.desiredState returns with every status entry at
\* ready = false, message = "" and state = desiredState, and does no work.
C6_StateChangeResetsStatus ==
    [][ StartsPass /\ StateDiffers
            => /\ pass'.done /\ pass'.branch = "transition"
               /\ Len(status'.mounts) = Len(spec.mounts)
               /\ \A i \in DOMAIN status'.mounts :
                     status'.mounts[i] = [state |-> spec.desiredState,
                                          ready |-> FALSE, message |-> ""]
               /\ NoWork ]_vars

\* The daemon reset entries that were ready under the previous desired state.
C6_Witness ==
    /\ owner = "daemon"
    /\ pass.done /\ pass.branch = "transition"
    /\ Len(pass.status0.mounts) = 2
    /\ \A i \in DOMAIN pass.status0.mounts :
          pass.status0.mounts[i].ready /\ pass.status0.mounts[i].state # spec.desiredState
    /\ \A i \in DOMAIN status.mounts : ~status.mounts[i].ready

\* The resource is not being deleted and its status has not the length of
\* spec.mounts.
LengthDiffers ==
    exists /\ ~deleting /\ Len(status.mounts) # Len(spec.mounts)

\* C7: a pass that starts on a resource not being deleted whose status.mounts
\* has not the length of spec.mounts ends with status.mounts of the length of
\* spec.mounts and every entry at ready = false, and does no work.
C7_LengthChangeRecreatesStatus ==
    [][ StartsPass /\ LengthDiffers
            => /\ pass'.done
               /\ Len(status'.mounts) = Len(spec.mounts)
               /\ \A i \in DOMAIN status'.mounts : ~status'.mounts[i].ready
               /\ NoWork ]_vars

\* A pass found a status longer or shorter than spec.mounts, neither empty,
\* with a ready entry, and recreated it.
C7_Witness ==
    /\ pass.done /\ pass.branch = "transition"
    /\ Len(pass.status0.mounts) > 0
    /\ Len(pass.status0.mounts) # Len(spec.mounts)
    /\ pass.status0.mounts[1].ready
    /\ Len(status.mounts) = Len(spec.mounts)

\* C8: a steady pass in which an entry failed sets status.error and returns
\* RequeueAfter of the fixed delay; one in which none failed leaves
\* status.error nil and asks for no retry; either way state and message of
\* every entry stay as they were at the start of the pass.
C8_SteadyOutcome ==
    SteadyDone
        => /\ (pass.failed # {}
                => /\ status.error # Nil
                   /\ pass.result = Result(FALSE, RequeueDelay)
                   /\ timer)
           /\ (pass.failed = {}
                => /\ status.error = Nil
                   /\ pass.result = NoResult
                   /\ pass.err = Nil
                   /\ ~timer)
           /\ Len(status.mounts) = Len(pass.status0.mounts)
           /\ \A i \in DOMAIN status.mounts :
                 /\ status.mounts[i].state = pass.status0.mounts[i].state
                 /\ status.mounts[i].message = pass.status0.mounts[i].message

\* A steady pass whose second entry failed kept the first entry ready and
\* asked for the retry.
C8_Witness ==
    /\ SteadyDone
    /\ pass.failed = {2}
    /\ status.mounts[1].ready
    /\ status.error # Nil
    /\ timer

\* The number of mount commands in the log.
MountCommands(log) == Cardinality({k \in DOMAIN log : Kind(log[k].cmd) = "mount"})

\* mount called again on the node that a call of mount left, with a new log.
mountAgain(r, info, fail) == mount([r.w EXCEPT !.ops = <<>>], info, fail)

\* The step calls mount for an entry whose mountPath is in the mount table:
\* the call runs the probe and nothing else and leaves the node alone, and
\* when the probe succeeds the call returns nil and the entry is ready.
MountOfMountedPath ==
    pc = "mountAll" /\ idx <= Len(spec.mounts) /\ MountedAt(spec.mounts[idx].mountPath)
        => /\ Len(ops') = 1
           /\ ops'[1].cmd = <<"mount">>
           /\ UNCHANGED <<mountTable, active>>
           /\ (ops'[1].ok => lastErr' = Nil /\ status'.mounts[idx].ready)
           /\ (~ops'[1].ok => lastErr' # Nil /\ ~status'.mounts[idx].ready)

\* The two calls issue at most one mount command, r1 and r2 being what the
\* first and the second returned.
AtMostOneCommand(r1, r2) == MountCommands(r1.w.ops) + MountCommands(r2.w.ops) <= 1

\* The second call issues no mount command and, its probe working, returns nil
\* when the first returned nil, and at most one mount command otherwise.
NoCommandAfterSuccess(r1, r2, f2) ==
    /\ MountCommands(r1.w.ops) <= 1
    /\ MountCommands(r2.w.ops) <= (IF r1.err = Nil THEN 0 ELSE 1)
    /\ (r1.err = Nil /\ f2 # "probe" => r2.err = Nil)

\* The kinds of command and OS call that mount runs.
MountFailKinds == FailKinds \ {"umount", "deactivate", "lockstop", "rmdir"}

\* What two calls of mount in a row return for the entry, f1 failing in the
\* first and f2 in the second.
Twice(info, f1, f2) ==
    LET r1 == mount(Node, info, f1)
    IN  [first |-> r1, second |-> mountAgain(r1, info, f2)]

\* Two calls of mount in a row for the entry mountAll is about to mount issue
\* at most one mount command, whatever fails in them.
TwiceAtMostOneCommand ==
    pc = "mountAll" /\ idx <= Len(spec.mounts)
        => \A f1, f2 \in MountFailKinds :
              LET t == Twice(spec.mounts[idx], f1, f2)
              IN  AtMostOneCommand(t.first, t.second)

\* After a call of mount that returned nil for the entry mountAll is about to
\* mount, a second call issues no mount command; after one that returned an
\* error, the second call may issue the mount command again.
TwiceAfterSuccessNoCommand ==
    pc = "mountAll" /\ idx <= Len(spec.mounts)
        => \A f1, f2 \in MountFailKinds :
              LET t == Twice(spec.mounts[idx], f1, f2)
              IN  NoCommandAfterSuccess(t.first, t.second, f2)

\* C10 as claimed: mount of an entry whose mountPath is in the mount table
\* runs one probe and nothing else and returns success, the entry getting
\* ready; and two calls of mount in a row issue at most one mount command.
C10_AsClaimed == [][MountOfMountedPath /\ TwiceAtMostOneCommand]_vars

\* C10: mount of an entry whose mountPath is in the mount table runs one probe
\* and nothing else and returns success, the entry getting ready; and a call
\* of mount that follows a successful one issues no mount command, while one
\* that follows a failed one may issue the mount command again.
C10_MountOfMountedPathProbesOnly ==
    [][MountOfMountedPath /\ TwiceAfterSuccessNoCommand]_vars

\* mountAll has called mount for an entry that an earlier pass mounted: the
\* log holds the probe alone and the entry is ready.
C10_Witness ==
    /\ pc = "mountAll" /\ idx > 1
    /\ pass.retried
    /\ MountedAt(spec.mounts[idx - 1].mountPath)
    /\ ops = <<[cmd |-> <<"mount">>, ok |-> TRUE]>>
    /\ lastErr = Nil
    /\ status.mounts[idx - 1].ready

---------------------------------------------------------------------------
(* The mount daemon left alone: the resource is not deleted and its spec   *)
(* stays as created.  The work queue hands every request and every         *)
(* RequeueAfter that falls due to Reconcile, and the loops of mountAll and *)
(* unmountAll run to their end.                                            *)

LiveInit == Created /\ contention = FALSE /\ owner = "daemon"

LiveNext ==
    \/ ReconcileEnter
    \/ mountAllStep
    \/ unmountAllStep
    \/ ReconcileExit

\* An iteration of the loop of mountAll / unmountAll, as the loop index shows it.
loopIteration ==
    pc \in {"mountAll", "unmountAll"} /\ idx <= Len(spec.mounts) /\ idx' = idx + 1

LiveSpec ==
    /\ LiveInit
    /\ [][LiveNext]_vars
    /\ WF_vars(ReconcileEnter)
    /\ WF_idx(loopIteration)
    /\ WF_vars(ReconcileExit)

\* No command and no OS call of the latest mount/unmount call failed.
OsOk == \A k \in DOMAIN ops : ops[k].ok

\* The latest pass did not see the update that adds the finalizer refused.
ApiOk == ~pass.result.requeue

\* The node lists the logical volume.
Listed(lvm) ==
    \E j \in 1..MaxMounts :
        lvm.logicalVolume = LogicalVolume(j) /\ lvm.volumeGroup = VolumeGroup(j)

\* Every entry has a device that getDevice and configureLVMDevice accept.
Resolvable ==
    \A i \in DOMAIN spec.mounts :
        \/ spec.mounts[i].device.type = ClientMountDeviceTypeLustre
        \/ /\ spec.mounts[i].device.type = ClientMountDeviceTypeLVM
           /\ Listed(spec.mounts[i].device.lvm)

\* Every entry is ready, status.error is nil, and no pass runs, is requested
\* or is due.
Settled ==
    /\ pc = "idle" /\ ~queued /\ ~timer
    /\ Len(status.mounts) = Len(spec.mounts)
    /\ \A i \in DOMAIN status.mounts : status.mounts[i].ready
    /\ status.error = Nil

\* A steady pass with a failed entry is followed by a steady pass that the
\* RequeueAfter started.
FailedPassRetried ==
    (SteadyDone /\ pass.failed # {})
        ~> (pass.branch = "steady" /\ ~pass.done /\ pass.retried)

---------------------------------------------------------------------------
(* Properties of the calls on logical volumes. *)

\* The commands of the log that change a volume group: lock start, activate,
\* deactivate, lock stop.
VolumeCommands(log) ==
    {k \in DOMAIN log :
        Kind(log[k].cmd) \in {"lockstart", "activate", "deactivate", "lockstop"}}

\* The kinds of command that configureLVMDevice runs.
VolumeFailKinds == {"none", "lvs", "lockstart", "activate", "deactivate", "lockstop"}

\* The entry is backed by a logical volume that the node lists.
ListedVolume(info) ==
    info.device.type = ClientMountDeviceTypeLVM /\ Listed(info.device.lvm)

\* The entry the loop of mountAll / unmountAll is about to handle.
Entry == spec.mounts[idx]

\* The loop of mountAll / unmountAll is about to handle an entry backed by a
\* listed logical volume, which mountAll asks to activate and unmountAll to
\* deactivate.
AboutToConfigure ==
    /\ ~Mock
    /\ pc \in {"mountAll", "unmountAll"}
    /\ idx <= Len(spec.mounts)
    /\ ListedVolume(Entry)

\* configureLVMDevice as the loop is about to call it, f failing.
configureEntry(w, f) ==
    configureLVMDevice(w, Entry.device.lvm, pc = "mountAll", Entry.type = "gfs2", f)

\* The volume of the entry is in the activation the loop asks for.
AlreadyConfigured == (Entry.device.lvm.volumeGroup \in active) = (pc = "mountAll")

\* configureLVMDevice ran lvs alone and, f not failing lvs, returned nil.
ListedOnly(r, f) ==
    /\ Len(r.w.ops) = 1
    /\ r.w.ops[1].cmd = lvsCmd
    /\ (f # "lvs" => r.err = Nil)

\* The call for an entry whose volume is in the activation asked for issues
\* no lock start, activate, deactivate or lock stop.
NoCommandWhenConfigured ==
    AboutToConfigure /\ AlreadyConfigured
        => VolumeCommands(ops') = {} /\ UNCHANGED active

\* configureLVMDevice for an entry whose volume is in the activation asked
\* for runs lvs alone and returns nil when lvs works.
ListedOnlyWhenConfigured ==
    AboutToConfigure /\ AlreadyConfigured
        => \A f \in VolumeFailKinds : ListedOnly(configureEntry(Node, f), f)

\* configureLVMDevice called again on the node that a call left, with a new log.
configureAgain(r, f) == configureEntry([r.w EXCEPT !.ops = <<>>], f)

\* The second of two calls, r2 being what it returned, issued no command
\* that changes the volume group.
Unchanging(r2) == VolumeCommands(r2.w.ops) = {}

\* When the first call returned nil, the second issued no command that
\* changes the volume group and, f2 not failing lvs, returned nil.
UnchangingAfterSuccess(r1, r2, f2) ==
    r1.err = Nil => Unchanging(r2) /\ (f2 # "lvs" => r2.err = Nil)

\* What two calls of configureLVMDevice in a row return, f1 failing in the
\* first and f2 in the second.
ConfigureTwice(f1, f2) ==
    LET r1 == configureEntry(Node, f1)
    IN  [first |-> r1, second |-> configureAgain(r1, f2)]

\* Of two calls of configureLVMDevice in a row only the first issues commands
\* that change the volume group.
SecondCallNoCommand ==
    AboutToConfigure
        => \A f1, f2 \in VolumeFailKinds : Unchanging(ConfigureTwice(f1, f2).second)

\* A call of configureLVMDevice that follows one that returned nil issues no
\* command that changes the volume group and, lvs working, returns nil.
SecondCallNoCommandAfterSuccess ==
    AboutToConfigure
        => \A f1, f2 \in VolumeFailKinds :
              LET t == ConfigureTwice(f1, f2)
              IN  UnchangingAfterSuccess(t.first, t.second, f2)

\* C11 as claimed: configureLVMDevice for a listed volume whose activation is
\* the one asked for issues no lock start, activate, deactivate or lock stop
\* and returns success; and of two calls in a row with the same arguments only
\* the first issues such commands.
C11_AsClaimed ==
    /\ [](ListedOnlyWhenConfigured /\ SecondCallNoCommand)
    /\ [][NoCommandWhenConfigured]_vars

\* C11: configureLVMDevice for a listed volume whose activation is the one
\* asked for issues no lock start, activate, deactivate or lock stop and
\* returns success; and a call that follows a successful call with the same
\* arguments issues none of these commands.
C11_ConfigureIdempotent ==
    /\ [](ListedOnlyWhenConfigured /\ SecondCallNoCommandAfterSuccess)
    /\ [][NoCommandWhenConfigured]_vars

\* mountAll has called mount for an unmounted entry whose volume was active:
\* the volumes were listed and no command changed the volume group.
C11_Witness ==
    /\ pc = "mountAll" /\ idx > 1
    /\ ListedVolume(spec.mounts[idx - 1])
    /\ spec.mounts[idx - 1].device.lvm.volumeGroup \in active
    /\ \E k \in DOMAIN ops : ops[k].cmd = lvsCmd /\ ops[k].ok
    /\ VolumeCommands(ops) = {}
    /\ lastErr = Nil

\* The entry of the latest call is backed by a logical volume and is of
\* type gfs2: its volume is shared.
SharedCall ==
    /\ ops # <<>>
    /\ spec.mounts[LastCalled].device.type = ClientMountDeviceTypeLVM
    /\ spec.mounts[LastCalled].type = "gfs2"

\* Command k of the log follows a command of kind `kind` for the volume
\* group vg that succeeded.
Follows(log, k, kind, vg) ==
    \E j \in 1..(k - 1) :
        Kind(log[j].cmd) = kind /\ log[j].ok /\ log[j].cmd[Len(log[j].cmd)] = vg

\* C12: in the log of every call for a shared logical volume an activate
\* follows a lock start of the same volume group that succeeded, and a lock
\* stop follows a deactivate of the same volume group that succeeded.
C12_LockOrder ==
    SharedCall
        => \A k \in DOMAIN ops :
              /\ (Kind(ops[k].cmd) = "activate"
                    => Follows(ops, k, "lockstart", ops[k].cmd[4]))
              /\ (Kind(ops[k].cmd) = "lockstop"
                    => Follows(ops, k, "deactivate", ops[k].cmd[3]))

\* A mount of a gfs2 entry started the lock and activated the volume group.
C12_Witness ==
    /\ SharedCall
    /\ pc = "mountAll"
    /\ \E k \in DOMAIN ops :
          /\ ops[k].cmd = activateCmd("s", spec.mounts[LastCalled].device.lvm.volumeGroup)
          /\ ops[k].ok
          /\ Follows(ops, k, "lockstart", spec.mounts[LastCalled].device.lvm.volumeGroup)

---------------------------------------------------------------------------
(* Properties of the order of the commands of one call. *)

\* The commands and OS calls of the log, in order.
Commands(log) == [k \in DOMAIN log |-> log[k].cmd]

\* The log runs the commands of `expected` in order, stops at the first that
\* fails, and is complete when none of those before the last fails.
RunsInOrder(log, expected) ==
    /\ Len(log) >= 1
    /\ Len(log) <= Len(expected)
    /\ Commands(log) = SubSeq(expected, 1, Len(log))
    /\ \A k \in 1..(Len(log) - 1) : log[k].ok
    /\ (Len(log) < Len(expected) => ~log[Len(log)].ok)

\* What unmount runs for a mounted gfs2 entry whose volume is active.
UnmountSharedCommands(info) ==
    << <<"mount">>, umountCmd(info), lvsCmd, deactivateCmd(info.device.lvm.volumeGroup),
       lockstopCmd(info.device.lvm.volumeGroup), <<"rmdir", info.mountPath>> >>

\* unmountAll is about to unmount a gfs2 entry backed by a listed logical
\* volume, which is mounted and whose volume is active.
AboutToUnmountShared ==
    /\ pc = "unmountAll" /\ idx <= Len(spec.mounts)
    /\ ListedVolume(Entry) /\ Entry.type = "gfs2"
    /\ MountedAt(Entry.mountPath)
    /\ Entry.device.lvm.volumeGroup \in active

\* C13: unmount of a mounted gfs2 entry whose volume is active runs the probe,
\* the umount command, the volume listing, the deactivate, the lock stop and
\* the removal of the mount directory in this order and stops at the first
\* failure before the removal; a log that reaches the removal makes the call
\* return nil and the entry ready, whether or not the removal fails.
C13_UnmountSharedOrder ==
    [][ AboutToUnmountShared
            => /\ RunsInOrder(ops', UnmountSharedCommands(Entry))
               /\ (Len(ops') = 6 <=> lastErr' = Nil)
               /\ (Len(ops') = 6 /\ idx <= Len(status.mounts)
                     => status'.mounts[idx].ready) ]_vars

\* unmountAll unmounted a gfs2 entry, deactivated its volume and stopped the
\* lock; the removal of the directory failed and the entry is ready.
C13_Witness ==
    /\ pc = "unmountAll" /\ idx > 1
    /\ spec.mounts[idx - 1].type = "gfs2"
    /\ Len(ops) = 6
    /\ Commands(ops) = UnmountSharedCommands(spec.mounts[idx - 1])
    /\ ~ops[6].ok
    /\ lastErr = Nil
    /\ status.mounts[idx - 1].ready

\* The mount command for the entry: file system type, device and mount path,
\* and the options after -o when there are any.
MountCommandOf(info, device) ==
    IF info.options = ""
    THEN <<"mount", "-t", info.type, device, info.mountPath>>
    ELSE <<"mount", "-t", info.type, device, info.mountPath, "-o", info.options>>

\* The path of the logical volume.
DevicePath(lvm) == "/dev/" \o lvm.volumeGroup \o "/" \o lvm.logicalVolume

\* What mount runs for an unmounted directory entry on a logical volume that
\* is not shared and not active.
MountPlainCommands(info) ==
    << <<"mount">>, lvsCmd, <<"vgchange", "--activate", "y", info.device.lvm.volumeGroup>>,
       <<"mkdir", info.mountPath>>, MountCommandOf(info, DevicePath(info.device.lvm)) >>

\* mountAll is about to mount a directory entry backed by a listed logical
\* volume, not of type gfs2, which is not mounted and whose volume is not active.
AboutToMountPlain ==
    /\ ~Mock
    /\ pc = "mountAll" /\ idx <= Len(spec.mounts)
    /\ ListedVolume(Entry) /\ Entry.type # "gfs2"
    /\ Entry.targetType = "directory"
    /\ ~MountedAt(Entry.mountPath)
    /\ Entry.device.lvm.volumeGroup \notin active

\* C14: mount of an unmounted directory entry on a logical volume that is not
\* shared and not active runs the probe, the volume listing, the activate
\* without the shared option, the creation of the directory and the mount
\* command (type, /dev/<vg>/<lv>, mount path, and -o <options> when options
\* are given) in this order and nothing else, stopping at the first failure;
\* when all succeed the call returns nil and the entry is ready.
C14_MountPlainOrder ==
    [][ AboutToMountPlain
            => /\ RunsInOrder(ops', MountPlainCommands(Entry))
               /\ (Len(ops') = 5 /\ ops'[5].ok <=> lastErr' = Nil)
               /\ (lastErr' = Nil
                     => /\ status'.mounts[idx].ready
                        /\ Entry.device.lvm.volumeGroup \in active'
                        /\ <<DevicePath(Entry.device.lvm), "on", Entry.mountPath,
                             "type", Entry.type>> \in mountTable') ]_vars

\* mountAll mounted an xfs entry: five commands, all of which succeeded.
C14_Witness ==
    /\ pc = "mountAll" /\ idx > 1
    /\ spec.mounts[idx - 1].type = "xfs"
    /\ ListedVolume(spec.mounts[idx - 1])
    /\ Commands(ops) = MountPlainCommands(spec.mounts[idx - 1])
    /\ \A k \in DOMAIN ops : ops[k].ok
    /\ lastErr = Nil
    /\ status.mounts[idx - 1].ready

---------------------------------------------------------------------------
(* Properties of the entries whose device cannot be resolved. *)

\* The device of the entry is neither a Lustre file system nor a logical volume.
InvalidDevice(info) ==
    info.device.type \notin {ClientMountDeviceTypeLustre, ClientMountDeviceTypeLVM}

\* The kinds of command and OS call that create the target or mount on it.
TargetKinds == {"mkdir", "createFile", "mount"}

\* mountAll is about to mount an entry whose device type is invalid.
AboutToMountInvalid ==
    pc = "mountAll" /\ idx <= Len(spec.mounts) /\ InvalidDevice(Entry)

\* The call for an entry with an invalid device type creates no target, runs
\* no mount command, mounts nothing and leaves the entry not ready; its error
\* is "Invalid device type" unless the probe failed before.
InvalidDeviceCall ==
    AboutToMountInvalid
        => /\ ~status'.mounts[idx].ready
           /\ lastErr' # Nil
           /\ (Failed(ops', {"probe"}) \/ lastErr'.text = "Invalid device type")
           /\ \A k \in DOMAIN ops' : Kind(ops'[k].cmd) \notin TargetKinds
           /\ UNCHANGED <<mountTable, active>>

\* A steady pass for the desired state Mounted called every entry, and the
\* entries with an invalid device type failed and are not ready.
InvalidDevicePass ==
    SteadyDone /\ spec.desiredState = ClientMountStateMounted
        => /\ pass.calls = InOrder(Len(spec.mounts))
           /\ \A i \in DOMAIN spec.mounts :
                 InvalidDevice(spec.mounts[i])
                    => i \in pass.failed /\ ~status.mounts[i].ready

\* C15: in a steady pass for the desired state Mounted an entry whose device
\* type is neither Lustre nor LVM ends not ready with the error "Invalid
\* device type" (the error of the probe when the probe failed), no target is
\* created and no mount command is run for it, and every other entry is
\* called all the same.
C15_InvalidDeviceType ==
    /\ []InvalidDevicePass
    /\ [][InvalidDeviceCall]_vars

\* A pass over a valid and an invalid entry: both were called, the first is
\* ready, the second is not, and the status names the error of the second.
C15_Witness ==
    /\ SteadyDone /\ spec.desiredState = ClientMountStateMounted
    /\ Len(spec.mounts) = 2
    /\ InvalidDevice(spec.mounts[2])
    /\ pass.calls = <<1, 2>>
    /\ status.mounts[1].ready /\ ~status.mounts[2].ready
    /\ status.error.message = "Mount failed"
    /\ status.error.raisedBy = spec.mounts[2].mountPath

---------------------------------------------------------------------------
(* Properties of the status of the resource. *)

\* mountAll / unmountAll has an entry left to call.
AtWork == pc \in {"mountAll", "unmountAll"} /\ idx <= Len(spec.mounts)

\* C16: whenever mountAll or unmountAll is about to call an entry, the status
\* has as many entries as the spec: no pass does mount or unmount work while
\* the two lengths differ.
C16_AsClaimed == AtWork => Len(status.mounts) = Len(spec.mounts)

\* A step with which a pass of the daemon returns and writes the status.
WritesStatus ==
    owner = "daemon" /\ ~pass.done /\ pass'.done /\ pass'.wrote

\* The pass that returns called the operation for the desired state on entry
\* i, and the call returned nil.
Operated(i) ==
    /\ pc = (IF spec.desiredState = ClientMountStateMounted
             THEN "mountAll" ELSE "unmountAll")
    /\ \E k \in DOMAIN pass'.calls : pass'.calls[k] = i
    /\ i \notin pass'.failed

\* Entry i was ready for the desired state in the copy of the status that the
\* pass took when it started.
CarriedOver(i) ==
    /\ i <= Len(pass'.status0.mounts)
    /\ pass'.status0.mounts[i].ready
    /\ pass'.status0.mounts[i].state = spec.desiredState

\* Every entry that the written status reports ready has the desired state as
\* its state, and its operation for the desired state succeeded in this pass
\* or it was ready for the desired state before.
ReadyJustified ==
    \A i \in DOMAIN status'.mounts :
        status'.mounts[i].ready
            => /\ status'.mounts[i].state = spec.desiredState
               /\ Operated(i) \/ CarriedOver(i)

\* C17: in the status written at the end of any pass, an entry is ready only
\* if its state is the desired state the pass read and its operation for that
\* desired state succeeded in this pass or in an earlier pass for the same
\* desired state.
C17_AsClaimed == [][WritesStatus => ReadyJustified]_vars

\* A teardown pass for the desired state Mounted wrote a status that reports
\* ready an entry with an invalid device type, which no mount can succeed on.
C17_Witness ==
    /\ owner = "daemon" /\ pc = "idle"
    /\ pass.done /\ pass.branch = "teardown" /\ pass.wrote
    /\ spec.desiredState = ClientMountStateMounted
    /\ \E i \in DOMAIN status.mounts :
          /\ i <= Len(spec.mounts) /\ InvalidDevice(spec.mounts[i])
          /\ status.mounts[i].ready
          /\ status.mounts[i].state = ClientMountStateMounted

---------------------------------------------------------------------------
(* Properties of the mock mode. *)

\* In mock mode no step executes a command or an OS call or changes the node.
MockFrame == Mock => ops' = <<>> /\ UNCHANGED <<mountTable, active>>

\* The daemon in mock mode is about to call mount or unmount for an entry.
MockCall == Mock /\ AtWork /\ idx <= Len(status.mounts)

\* In mock mode every call of mount and unmount returns nil.
MockCallSucceeds == MockCall => lastErr' = Nil

\* In mock mode unmount returns nil, and mount returns nil unless the device
\* type of the entry is invalid; the entry is ready when the call returned nil.
MockCallSucceedsOnValidDevice ==
    MockCall
        => /\ lastErr' = Nil <=> ~(pc = "mountAll" /\ InvalidDevice(Entry))
           /\ status'.mounts[idx].ready <=> lastErr' = Nil

\* A steady pass in mock mode left every entry ready and no error in the status.
MockPassAllReady ==
    Mock /\ SteadyDone
        => /\ \A i \in DOMAIN status.mounts : status.mounts[i].ready
           /\ status.error = Nil

\* A steady pass in mock mode left ready every entry but those that were to
\* be mounted and have an invalid device type, and no error in the status
\* when there is no such entry.
MockPassReadyOnValidDevice ==
    Mock /\ SteadyDone
        => /\ \A i \in DOMAIN status.mounts :
                 status.mounts[i].ready
                    <=> ~(spec.desiredState = ClientMountStateMounted
                            /\ InvalidDevice(spec.mounts[i]))
           /\ status.error = Nil
                 <=> \A i \in DOMAIN status.mounts : status.mounts[i].ready

\* C18 as claimed: in mock mode no pass executes a command or changes the node,
\* every mount and unmount returns nil, and a steady pass leaves every entry
\* ready and status.error nil.
C18_AsClaimed ==
    /\ []MockPassAllReady
    /\ [][MockFrame /\ MockCallSucceeds]_vars

\* C18: in mock mode no pass executes a command or changes the node; every
\* unmount returns nil, and so does every mount but that of an entry whose
\* device type is neither Lustre nor LVM; a steady pass leaves ready the
\* entries whose call returned nil, and status.error nil when all did.
C18_MockMode ==
    /\ []MockPassReadyOnValidDevice
    /\ [][MockFrame /\ MockCallSucceedsOnValidDevice]_vars

\* A steady pass in mock mode mounted two entries, one of them on a logical
\* volume: both are ready, no error, and the node is as it was.
C18_Witness ==
    /\ Mock /\ SteadyDone
    /\ spec.desiredState = ClientMountStateMounted
    /\ pass.calls = <<1, 2>>
    /\ \E i \in DOMAIN spec.mounts :
          spec.mounts[i].device.type = ClientMountDeviceTypeLVM
    /\ \A i \in DOMAIN status.mounts : status.mounts[i].ready
    /\ status.error = Nil
    /\ mountTable = {} /\ active = {}

---------------------------------------------------------------------------
(* Properties of the status update, under ContendedSpec. *)

\* A step with which a pass returns.
EndsPass == pass'.done /\ pass'.branch # "none"

\* The stored status (status between the passes, pass.status0 during a pass)
\* changes only by the update at the end of a pass, and only when that update
\* did not meet a conflict.
WrittenAtEnd ==
    /\ EndsPass => (status' = pass'.status0 \/ pass'.wrote)
    /\ EndsPass /\ pass'.wrote => ~pass'.dropped.is
    /\ ~pass.done /\ ~pass'.done => pass'.status0 = pass.status0
    /\ pass'.branch = "none" => UNCHANGED status

\* A status update that met a conflict leaves the stored status as it was when
\* the pass started and adds no error to the pass, and the request is queued
\* again.
DroppedOnConflict ==
    EndsPass /\ pass'.dropped.is
        => /\ status' = pass'.status0
           /\ pass'.dropped.status # pass'.status0
           /\ (pass'.branch # "teardown" => pass'.err = Nil)
           /\ queued'

\* The pass that returns follows a pass whose status update was dropped, and
\* its own update is not dropped; the resource is still there.
AfterDrop == EndsPass /\ pass.dropped.is /\ ~pass'.dropped.is /\ exists'

\* The pass after a dropped update leaves the status that was dropped.
RederivesDropped == AfterDrop => status' = pass.dropped.status

\* The pass after a dropped update leaves the status that was dropped when
\* its calls failed for the same entries.
RederivesDroppedOnSameResults ==
    AfterDrop /\ pass'.failed = pass.dropped.failed => status' = pass.dropped.status

---------------------------------------------------------------------------
(* Properties of the steps of mount. *)

\* The step of mount a kind of command or OS call belongs to: the probe, the
\* resolution of the device, the creation of the target, the mount command.
Step(kind) ==
    CASE kind = "probe" -> 1
      [] kind \in {"lvs", "lockstart", "activate"} -> 2
      [] kind \in {"mkdir", "createFile"} -> 3
      [] kind = "mount" -> 4
      [] OTHER -> 0

\* The text of the error mount returns when a command of this kind fails.
StepErrorText(kind) ==
    CASE kind = "probe" -> "resource error: exit status"
      [] kind \in {"lockstart", "activate"} -> "Client could not access storage"
      [] kind = "mkdir" -> "mkdir"
      [] kind = "createFile" -> "open"
      [] OTHER -> "exit status"

\* The errors of a device resolution none of whose commands failed.
UnresolvedTexts == {"Invalid device type", "Could not find VG/LV pair"}

\* The log of a mount: its commands belong to the steps of mount, in the
\* order of the steps, and no command follows one that failed.
StepsInOrder(log) ==
    /\ \A k \in DOMAIN log : Step(Kind(log[k].cmd)) > 0
    /\ \A j, k \in DOMAIN log :
          j < k => Step(Kind(log[j].cmd)) <= Step(Kind(log[k].cmd))
    /\ \A k \in DOMAIN log : k < Len(log) => log[k].ok

\* The error of a mount with this log: that of the command that failed, or
\* that of a device that was not resolved, and then no target was created
\* and no mount command run; nil when neither happened.
FirstFailureReturned(log, err) ==
    IF log # <<>> /\ ~log[Len(log)].ok
    THEN err.text = StepErrorText(Kind(log[Len(log)].cmd))
    ELSE err # Nil
            => /\ err.text \in UnresolvedTexts
               /\ \A k \in DOMAIN log : Step(Kind(log[k].cmd)) <= 2

\* What the commands that succeeded did is there after the call.
NothingUndone(log) ==
    /\ mountTable \subseteq mountTable'
    /\ active \subseteq active'
    /\ \A k \in DOMAIN log :
          Kind(log[k].cmd) = "activate" /\ log[k].ok => log[k].cmd[4] \in active'

\* mountAll is about to mount an entry, not in mock mode.
AboutToMount == ~Mock /\ pc = "mountAll" /\ idx <= Len(spec.mounts)

\* C20: the commands of a mount are those of the probe, the device resolution
\* (with the activation), the target creation and the mount command, in this
\* order; the first step that fails ends the mount, which returns the error of
\* that step and runs nothing more; what the steps before it did (a volume
\* activated) is not undone.
C20_MountStepsInOrder ==
    [][ AboutToMount
            => /\ StepsInOrder(ops')
               /\ FirstFailureReturned(ops', lastErr')
               /\ NothingUndone(ops')
               /\ status'.mounts[idx].ready <=> lastErr' = Nil ]_vars

\* A mount activated the volume and failed to create the target: it ran no
\* mount command, the entry is not ready and the volume is still active.
C20_Witness ==
    /\ ~Mock /\ pc = "mountAll" /\ idx > 1
    /\ Len(ops) = 4
    /\ Kind(ops[3].cmd) = "activate" /\ ops[3].ok
    /\ Kind(ops[4].cmd) = "mkdir" /\ ~ops[4].ok
    /\ ops[3].cmd[4] \in active
    /\ lastErr.text = "mkdir"
    /\ ~status.mounts[idx - 1].ready

---------------------------------------------------------------------------
(* Properties of the steps of unmount. *)

\* unmountAll is about to unmount an entry, not in mock mode.
AboutToUnmount == ~Mock /\ pc = "unmountAll" /\ idx <= Len(spec.mounts)

\* The call left the node as it was and the entry, when the status has it,
\* not ready.
EndedAtOnce ==
    /\ UNCHANGED <<mountTable, active>>
    /\ lastErr' # Nil
    /\ (idx <= Len(status.mounts) => ~status'.mounts[idx].ready)

\* C21: an unmount whose umount command fails returns the error of the command
\* at once: it ran the probe and the umount command and nothing else (no
\* deactivate, no lock stop, no removal of the directory), and the entry is
\* not ready; an unmount whose probe fails ran the probe and nothing else.  A
\* mounted path is answered by the umount command whenever the probe succeeds.
C21_UnmountFailsAtOnce ==
    [][ AboutToUnmount
            => /\ Failed(ops', {"umount"})
                    => /\ Commands(ops') = << <<"mount">>, umountCmd(Entry) >>
                       /\ ops'[1].ok
                       /\ lastErr'.text = "exit status"
                       /\ EndedAtOnce
               /\ Failed(ops', {"probe"})
                    => /\ Commands(ops') = << <<"mount">> >>
                       /\ lastErr'.text = "resource error: exit status"
                       /\ EndedAtOnce
               /\ MountedAt(Entry.mountPath) /\ ~Failed(ops', {"probe"})
                    => Len(ops') >= 2 /\ ops'[2].cmd = umountCmd(Entry) ]_vars

\* unmountAll called a mounted entry on an active logical volume and the
\* umount command failed: two commands, the volume still active, the path
\* still mounted, the entry not ready.
C21_Witness ==
    /\ ~Mock /\ pc = "unmountAll" /\ idx > 1
    /\ Len(ops) = 2 /\ ops[1].ok /\ ~ops[2].ok
    /\ ops[2].cmd = umountCmd(spec.mounts[idx - 1])
    /\ ListedVolume(spec.mounts[idx - 1])
    /\ spec.mounts[idx - 1].device.lvm.volumeGroup \in active
    /\ MountedAt(spec.mounts[idx - 1].mountPath)
    /\ ~status.mounts[idx - 1].ready

\* What unmount runs for an entry on a listed logical volume whose path is not
\* mounted: the deactivate when the volume is active, the lock stop after it
\* when the type is gfs2, and the removal of the directory.
UnmountUnmountedCommands(info) ==
    << <<"mount">>, lvsCmd >>
        \o (IF info.device.lvm.volumeGroup \in active
            THEN << <<"vgchange", "--activate", "n", info.device.lvm.volumeGroup>> >>
                    \o (IF info.type = "gfs2"
                        THEN << <<"vgchange", "--lockstop", info.device.lvm.volumeGroup>> >>
                        ELSE << >>)
            ELSE << >>)
        \o << <<"rmdir", info.mountPath>> >>

\* unmountAll is about to unmount an entry on a listed logical volume whose
\* path is not in the mount table.
AboutToUnmountUnmounted ==
    AboutToUnmount /\ ListedVolume(Entry) /\ ~MountedAt(Entry.mountPath)

\* C22: unmount of an entry on a logical volume whose path is not mounted runs
\* no umount command and still deactivates the volume: after the probe and the
\* listing it runs the deactivate when the volume is active, then the lock
\* stop if and only if the type is gfs2, then the removal of the directory;
\* it stops at the first of the commands before the removal that fails, and
\* returns nil when the removal is reached, the volume then being inactive.
C22_UnmountedStillDeactivated ==
    [][ AboutToUnmountUnmounted
            => /\ RunsInOrder(ops', UnmountUnmountedCommands(Entry))
               /\ \A k \in DOMAIN ops' : Kind(ops'[k].cmd) # "umount"
               /\ (Len(ops') = Len(UnmountUnmountedCommands(Entry)) <=> lastErr' = Nil)
               /\ (lastErr' = Nil => Entry.device.lvm.volumeGroup \notin active') ]_vars

\* unmountAll called a gfs2 entry that was not mounted and whose volume was
\* active: probe, listing, deactivate, lock stop and removal, and no umount.
C22_Witness ==
    /\ ~Mock /\ pc = "unmountAll" /\ idx > 1
    /\ spec.mounts[idx - 1].type = "gfs2"
    /\ Len(ops) = 5
    /\ [k \in 1..5 |-> Kind(ops[k].cmd)]
          = <<"probe", "lvs", "deactivate", "lockstop", "rmdir">>
    /\ lastErr = Nil
    /\ spec.mounts[idx - 1].device.lvm.volumeGroup \notin active

---------------------------------------------------------------------------
(* Properties of the logical volumes the node does not list. *)

\* The pairs of a volume group and a logical volume that no line of the
\* listing has: a name the node does not know, or the names of two lines.
UnlistedVolumes ==
    {lvm \in [volumeGroup : {VolumeGroup(i) : i \in 1..MaxMounts},
              logicalVolume : {LogicalVolume(i) : i \in 1..MaxMounts} \cup {"nolv"}] :
        ~Listed(lvm)}

\* What configureLVMDevice returned for a volume that is not listed: a fatal
\* error, the listing as its only command, the node as it was.
NotFound(r) ==
    /\ r.err.text = "Could not find VG/LV pair" /\ r.err.fatal
    /\ Commands(r.w.ops) = <<lvsCmd>>
    /\ r.w.mountTable = mountTable /\ r.w.active = active

\* The commands of configureLVMDevice after the listing that can fail when it
\* is asked to activate, or to deactivate.
FailKindsAfterListing(activate) ==
    IF activate THEN {"none", "lockstart", "activate"}
    ELSE {"none", "deactivate", "lockstop"}

\* On the node as mountAll / unmountAll finds it when it calls an entry on a
\* logical volume, configureLVMDevice finds no volume that is not listed,
\* whatever it is asked and whichever command would fail after the listing.
UnlistedNotConfigured ==
    ~Mock /\ AtWork /\ Entry.device.type = ClientMountDeviceTypeLVM
        => \A lvm \in UnlistedVolumes, activate \in BOOLEAN, shared \in BOOLEAN :
              \A fail \in FailKindsAfterListing(activate) :
                 NotFound(configureLVMDevice(Node, lvm, activate, shared, fail))

\* mountAll or unmountAll is about to call an entry on a logical volume that
\* is not listed.
AboutToCallUnlisted ==
    /\ ~Mock /\ AtWork
    /\ Entry.device.type = ClientMountDeviceTypeLVM
    /\ Entry.device.lvm \in UnlistedVolumes

\* The call fails, runs no command on the volume group, creates and removes
\* nothing and leaves the entry not ready; its error is the fatal one unless
\* the probe, the umount command or the listing failed.
UnlistedCallFails ==
    AboutToCallUnlisted
        => /\ lastErr' # Nil
           /\ (idx <= Len(status.mounts) => ~status'.mounts[idx].ready)
           /\ VolumeCommands(ops') = {}
           /\ \A k \in DOMAIN ops' :
                 Kind(ops'[k].cmd) \notin {"mkdir", "createFile", "mount", "rmdir"}
           /\ UNCHANGED active
           /\ (~Failed(ops', {"probe", "umount", "lvs"})
                 => /\ lastErr'.text = "Could not find VG/LV pair" /\ lastErr'.fatal
                    /\ Kind(ops'[Len(ops')].cmd) = "lvs")

\* C23: configureLVMDevice for a pair of names that no line of the listing has
\* returns a fatal error and runs no lock start, activate, deactivate or lock
\* stop; the mount and the unmount of an entry on such a volume fail and leave
\* the entry not ready, the unmount also when the path is not mounted.
C23_UnlistedVolumeFails ==
    /\ []UnlistedNotConfigured
    /\ [][UnlistedCallFails]_vars

\* unmountAll called an entry on an unlisted volume whose path was not
\* mounted: probe and listing, the fatal error, the entry not ready.
C23_Witness ==
    /\ ~Mock /\ pc = "unmountAll" /\ idx > 1
    /\ spec.mounts[idx - 1].device.type = ClientMountDeviceTypeLVM
    /\ spec.mounts[idx - 1].device.lvm \in UnlistedVolumes
    /\ Commands(ops) = << <<"mount">>, lvsCmd >>
    /\ ops[1].ok /\ ops[2].ok
    /\ lastErr.fatal /\ lastErr.text = "Could not find VG/LV pair"
    /\ ~status.mounts[idx - 1].ready

---------------------------------------------------------------------------
(* Properties of the locks of the shared volume groups. *)

\* mountAll or unmountAll is about to call a gfs2 entry on a listed logical
\* volume.
AboutToCallShared ==
    ~Mock /\ AtWork /\ ListedVolume(Entry) /\ Entry.type = "gfs2"

\* The log ends with a command of this kind, which failed.
EndsWithFailed(log, kind) ==
    log # <<>> /\ Kind(log[Len(log)].cmd) = kind /\ ~log[Len(log)].ok

\* The call returned a fatal error with this text and left the entry not ready
\* and the volume groups as they were.
FatalAndNotReady(text) ==
    /\ lastErr'.fatal /\ lastErr'.text = text
    /\ (idx <= Len(status.mounts) => ~status'.mounts[idx].ready)
    /\ UNCHANGED active

\* C24: when the lock start of a shared volume fails, the call returns the
\* fatal error "could not access storage" and runs no activate; when the
\* deactivate of a shared volume fails, it returns the fatal error "could not
\* release storage" and runs no lock stop; in both cases the mount or unmount
\* fails and the entry is not ready.
C24_SharedFailureStops ==
    [][ AboutToCallShared
            => /\ Failed(ops', {"lockstart"})
                    => /\ EndsWithFailed(ops', "lockstart")
                       /\ \A k \in DOMAIN ops' : Kind(ops'[k].cmd) # "activate"
                       /\ pc = "mountAll"
                       /\ FatalAndNotReady("Client could not access storage")
               /\ Failed(ops', {"deactivate"})
                    => /\ EndsWithFailed(ops', "deactivate")
                       /\ \A k \in DOMAIN ops' : Kind(ops'[k].cmd) # "lockstop"
                       /\ pc = "unmountAll"
                       /\ FatalAndNotReady("Client could not release storage") ]_vars

\* mountAll called a gfs2 entry and the lock start failed: no activate, a
\* fatal error, the volume inactive, the entry not ready.
C24_Witness ==
    /\ ~Mock /\ pc = "mountAll" /\ idx > 1
    /\ spec.mounts[idx - 1].type = "gfs2"
    /\ EndsWithFailed(ops, "lockstart")
    /\ lastErr.fatal
    /\ spec.mounts[idx - 1].device.lvm.volumeGroup \notin active
    /\ ~status.mounts[idx - 1].ready

\* The entry is on a logical volume and its file system type is gfs2.
SharedEntry(info) ==
    info.device.type = ClientMountDeviceTypeLVM /\ info.type = "gfs2"

\* The commands of the log that are for shared volume groups alone: the lock
\* start, the lock stop and the activate with the shared option.
SharedCommands(log) ==
    {k \in DOMAIN log :
        \/ Kind(log[k].cmd) \in {"lockstart", "lockstop"}
        \/ Kind(log[k].cmd) = "activate" /\ log[k].cmd[3] = "sy"}

\* The commands of the log that are for volume groups that are not shared:
\* the activate without the shared option, and the deactivate that succeeded
\* and that no lock stop follows.
PlainCommands(log) ==
    {k \in DOMAIN log :
        \/ Kind(log[k].cmd) = "activate" /\ log[k].cmd[3] = "y"
        \/ /\ Kind(log[k].cmd) = "deactivate" /\ log[k].ok
           /\ ~(k < Len(log) /\ Kind(log[k + 1].cmd) = "lockstop")}

\* C25: the lock start, the lock stop and the shared option of the activate
\* are used if and only if the entry is on a logical volume and its type is
\* gfs2: the call of mount or unmount for any other entry, Lustre or LVM, runs
\* none of them, and the call for a gfs2 entry on a logical volume activates
\* with the shared option after a lock start only and runs the lock stop after
\* every deactivate that succeeded.
C25_SharedIffGfs2 ==
    [][ ~Mock /\ AtWork
            => /\ ~SharedEntry(Entry) => SharedCommands(ops') = {}
               /\ SharedEntry(Entry)
                    => /\ PlainCommands(ops') = {}
                       /\ \A k \in DOMAIN ops' :
                             Kind(ops'[k].cmd) = "activate"
                                => k > 1 /\ Kind(ops'[k - 1].cmd) = "lockstart" ]_vars

\* unmountAll called an xfs entry on a logical volume: the deactivate
\* succeeded, the removal followed, and there was no lock stop.
C25_Witness ==
    /\ ~Mock /\ pc = "unmountAll" /\ idx > 1
    /\ spec.mounts[idx - 1].type = "xfs"
    /\ ListedVolume(spec.mounts[idx - 1])
    /\ \E k \in DOMAIN ops : Kind(ops[k].cmd) = "deactivate" /\ ops[k].ok
    /\ SharedCommands(ops) = {}
    /\ Kind(ops[Len(ops)].cmd) = "rmdir"
    /\ lastErr = Nil

---------------------------------------------------------------------------
(* checkMount on its own, on mount tables the daemon did not write. *)

\* Lines of a mount table, each the sequence of its fields: mounts on the
\* paths /mnt/1, /mnt/10 and /mnt, a bind mount of /mnt/1 on /mnt/2, and lines
\* of fewer than three fields that name /mnt/1.
ProbeLines ==
    { <<"/dev/vg1/lv1", "on", "/mnt/1", "type", "xfs">>,
      <<"/dev/vg2/lv2", "on", "/mnt/10", "type", "xfs">>,
      <<"tmpfs", "on", "/mnt", "type", "tmpfs">>,
      <<"/mnt/1", "on", "/mnt/2", "type", "none">>,
      <<"on", "/mnt/1">>,
      <<"/mnt/1">> }

\* The paths checkMount is asked about.
ProbePaths == {"/mnt/1", "/mnt/10", "/mnt", "/mnt/3"}

\* A daemon, not in mock mode, on a node with any of these mount tables.
ProbeInit ==
    /\ owner = "daemon" /\ Mock = FALSE /\ catalog = 1 /\ contention = FALSE
    /\ exists = FALSE /\ deleting = FALSE /\ finalizer = FALSE
    /\ spec = [mounts |-> <<>>, desiredState |-> ClientMountStateMounted]
    /\ status = [mounts |-> <<>>, error |-> Nil]
    /\ mountTable \in SUBSET ProbeLines
    /\ active = {}
    /\ pc = "checkMount"
    /\ idx = 0
    /\ firstError = Nil
    /\ pass = NoPass
    /\ ops = <<>>
    /\ lastErr = Nil
    /\ queued = FALSE
    /\ timer = FALSE
    /\ probed = NoProbe

\* One call of checkMount, the mount command succeeding or failing.
checkMountCall ==
    /\ pc = "checkMount"
    /\ \E path \in ProbePaths, fail \in {"none", "probe"} :
          LET c == checkMount(Node, path, fail) IN
          /\ probed' = [path |-> path, failed |-> ~c.w.ops[1].ok,
                        state |-> c.state, err |-> c.err]
          /\ ops' = c.w.ops
          /\ mountTable' = c.w.mountTable
          /\ active' = c.w.active
    /\ UNCHANGED <<owner, Mock, catalog, contention, exists, deleting, finalizer, spec,
                   status, pc, idx, firstError, pass, lastErr, queued, timer>>

ProbeNext == checkMountCall

ProbeSpec == ProbeInit /\ [][ProbeNext]_vars

\* The mount table has a line of at least three fields whose third field is
\* the path.
HasLineFor(path) ==
    \E line \in mountTable : Len(line) >= 3 /\ line[3] = path

\* C26: checkMount returns Mounted if and only if the mount command succeeded
\* and its output has a line of at least three fields whose third field is
\* the path itself; a path that no such line has gives Unmounted and no
\* error; an error is returned if and only if the mount command failed, and
\* checkMount runs the mount command and nothing else.
C26_CheckMount ==
    probed # NoProbe
        => /\ probed.state = ClientMountStateMounted
                <=> ~probed.failed /\ HasLineFor(probed.path)
           /\ probed.state \in {ClientMountStateMounted, ClientMountStateUnmounted}
           /\ probed.err # Nil <=> probed.failed
           /\ Commands(ops) = << <<"mount">> >>

\* checkMount answered Unmounted without error for /mnt/1 on a table that
\* mounts /mnt/10 and /mnt, binds /mnt/1 elsewhere and names it in a short line.
C26_Witness ==
    /\ probed.path = "/mnt/1" /\ ~probed.failed
    /\ probed.state = ClientMountStateUnmounted /\ probed.err = Nil
    /\ mountTable = ProbeLines \ { <<"/dev/vg1/lv1", "on", "/mnt/1", "type", "xfs">> }

---------------------------------------------------------------------------
(* Properties that relate the status to the node. *)

\* A pass of the daemon, not in mock mode, has returned and the resource is
\* there.
PassDone ==
    /\ owner = "daemon" /\ ~Mock
    /\ pc = "idle" /\ pass.done /\ pass.branch # "none"
    /\ exists

\* Entry i of the status is ready and the node is as its state says: the path
\* in the mount table for the state mounted; the path not in the mount table
\* and the volume, if any, not active for the state unmounted.
AsTheStateSays(i) ==
    LET info == spec.mounts[i] IN
    /\ status.mounts[i].state = ClientMountStateMounted => MountedAt(info.mountPath)
    /\ status.mounts[i].state = ClientMountStateUnmounted
          => /\ ~MountedAt(info.mountPath)
             /\ (info.device.type = ClientMountDeviceTypeLVM
                    => info.device.lvm.volumeGroup \notin active)

\* C27: at the end of any pass of the daemon (not in mock mode), an entry with
\* state mounted and ready=true has its path in the mount table, and an entry
\* with state unmounted and ready=true has its path not in the mount table
\* and, when it is on a logical volume, the volume not active.
C27_AsClaimed ==
    PassDone
        => \A i \in DOMAIN status.mounts :
              i <= Len(spec.mounts) /\ status.mounts[i].ready => AsTheStateSays(i)

\* A teardown pass unmounted an entry and returned with the resource still
\* there: the status says mounted and ready, the path is not mounted.
C27_Witness ==
    /\ PassDone /\ pass.branch = "teardown" /\ pass.wrote
    /\ \E i \in DOMAIN status.mounts :
          /\ i <= Len(spec.mounts)
          /\ status.mounts[i].ready
          /\ status.mounts[i].state = ClientMountStateMounted
          /\ ~MountedAt(spec.mounts[i].mountPath)
          /\ ~InvalidDevice(spec.mounts[i])

---------------------------------------------------------------------------
(* Properties of the indices of status.mounts. *)

\* C28: no pass reads or writes status.mounts at an index outside its length:
\* no pass ends in an index-out-of-range panic, whatever the resource.
C28_AsClaimed == ~pass.panicked

\* A teardown pass of the daemon on a resource whose status is shorter than
\* its spec unmounted the entry the status does not have and panicked.
C28_Witness ==
    /\ owner = "daemon" /\ pc = "idle"
    /\ pass.done /\ pass.branch = "teardown" /\ pass.panicked
    /\ Len(spec.mounts) > 0
    /\ Len(status.mounts) < Len(spec.mounts)
    /\ pass.calls # <<>>
    /\ pass.calls[Len(pass.calls)] = Len(status.mounts) + 1

---------------------------------------------------------------------------
(* Properties of the error of the status. *)

\* A pass has returned and the resource is there.
AnyPassDone == pc = "idle" /\ pass.done /\ pass.branch # "none" /\ exists

\* C29: in the status at the end of any pass, status.error is set only if an
\* entry is not ready: the error that a failed steady pass recorded is not
\* there once every entry is ready, after a change of the desired state and
\* after a teardown pass that unmounted every entry as well.
C29_AsClaimed ==
    AnyPassDone /\ status.error # Nil
        => \E i \in DOMAIN status.mounts : ~status.mounts[i].ready

\* A teardown pass unmounted every entry and returned with the resource still
\* there: every entry is ready and the status has the error of an earlier
\* steady pass.
C29_Witness ==
    /\ owner = "daemon" /\ AnyPassDone
    /\ pass.branch = "teardown" /\ pass.wrote /\ pass.failed = {}
    /\ pass.calls = InOrder(Len(spec.mounts))
    /\ status.mounts # <<>>
    /\ \A i \in DOMAIN status.mounts : status.mounts[i].ready
    /\ status.error # Nil
    /\ status.error.message \in {"Mount failed", "Unmount failed"}

=============================================================================
